---- MODULE Spec2Model ----
(***************************************************************************)
(* A model of the nasol collection pipeline: NasolCollector.collect()     *)
(* (src/nasol/collector.py) over the SQLite store NasolRepository         *)
(* (src/nasol/storage.py), with the identifier utilities of                *)
(* src/nasol/parsing.py.                                                   *)
(*                                                                         *)
(* Encoding.  Python None is None (-1) for integer columns, NoKey (<<>>)  *)
(* for the dedupe key and NoText ("none") for text columns.  Dates are    *)
(* ISO dates written as the integer yyyymmdd, which orders as the ISO     *)
(* string does.  Video ids are strings ordered by IdRank.  Columns that   *)
(* upsert_video overwrites unconditionally and that no operation reads    *)
(* back (url, channel_*, description, duration_*, published_ts,           *)
(* like_count, series_type, discovered_at, updated_at) are left out.      *)
(***************************************************************************)
EXTENDS Integers, Sequences, FiniteSets, TLC

VARIABLES
    videos,     \* table videos: video_id -> row
    jobs,       \* table jobs: sequence of rows, job_id = position
    job_logs,   \* table job_logs: sequence of rows in id order
    pc,         \* position of the collect() call
    args,       \* arguments of the collect() call
    world,      \* what the upstream platform answers during this call
    loc,        \* local variables of collect()
    out,        \* how collect() ended: what it returned or raised
    trace,      \* observations of the run (tables at call, transcript visits)
    lastCall    \* last direct repository call (repository specification)

vars == <<videos, jobs, job_logs, pc, args, world, loc, out, trace, lastCall>>

---------------------------------------------------------------------------
\* Encoding of None and of small orders

None == 0 - 1
NoKey == <<>>
NoText == "none"

VideoIds == {"va", "vb", "vc"}

IdRank(v) == CASE v = "va" -> 1 [] v = "vb" -> 2 [] v = "vc" -> 3

\* ensure_season_list keeps 1 <= value <= 29
MinSeason == 1
MaxSeason == 29

\* source_priority of an official and of a general-search record
OfficialPriority == 3
GeneralPriority == 1

---------------------------------------------------------------------------
\* Sequence helpers

RECURSIVE SeqToSet(_)
SeqToSet(s) == IF s = <<>> THEN {} ELSE {Head(s)} \cup SeqToSet(Tail(s))

RECURSIVE SortedSeqOfInts(_)
SortedSeqOfInts(S) ==
    IF S = {} THEN <<>>
    ELSE LET m == CHOOSE x \in S : \A y \in S : x <= y
         IN <<m>> \o SortedSeqOfInts(S \ {m})

\* Python dict keyed by video_id, as the sequence of its values in insertion
\* order: assigning an existing key replaces the value in place.
DictPut(d, item) ==
    IF \E i \in 1..Len(d) : d[i].video_id = item.video_id
    THEN [i \in 1..Len(d) |-> IF d[i].video_id = item.video_id THEN item ELSE d[i]]
    ELSE Append(d, item)

RECURSIVE DictPutAll(_, _)
DictPutAll(d, items) ==
    IF items = <<>> THEN d ELSE DictPutAll(DictPut(d, Head(items)), Tail(items))

---------------------------------------------------------------------------
\* parsing.py

\* Variant: the range test 1 <= v <= 29 left out
ensure_season_list_unfiltered(values) ==
    SortedSeqOfInts(SeqToSet(values))

\* ensure_season_list: sorted({int(v) for v in values if 1 <= int(v) <= 29})
ensure_season_list(values) ==
    SortedSeqOfInts({v \in SeqToSet(values) : MinSeason <= v /\ v <= MaxSeason})

\* The titles the upstream serves.  parse_first_season, parse_episode_number
\* and normalize_title_for_key are tabulated on them.
Titles == {"11gi", "11gi 3hoe T0", "11gi 5hoe T1", "[HD] 11gi 5hoe T1", "11gi 5hoe cut",
           "12gi T2", ""}

parse_first_season(text) ==
    CASE text = "11gi" -> 11
      [] text = "11gi 5hoe T1" -> 11
      [] text = "[HD] 11gi 5hoe T1" -> 11
      [] text = "11gi 5hoe cut" -> 11
      [] text = "11gi 3hoe T0" -> 11
      [] text = "12gi T2" -> 12
      [] OTHER -> None

parse_episode_number(title) ==
    CASE title = "11gi 5hoe T1" -> 5
      [] title = "[HD] 11gi 5hoe T1" -> 5
      [] title = "11gi 5hoe cut" -> 5
      [] title = "11gi 3hoe T0" -> 3
      [] OTHER -> None

\* normalize_title_for_key: drops [..] and (..) groups, maps every run of
\* other characters to one space, trims, lowercases
normalize_title_for_key(title) ==
    CASE title = "11gi 5hoe T1" -> "11gi 5hoe t1"
      [] title = "[HD] 11gi 5hoe T1" -> "11gi 5hoe t1"
      [] title = "11gi 5hoe cut" -> "11gi 5hoe cut"
      [] title = "11gi 3hoe T0" -> "11gi 3hoe t0"
      [] title = "12gi T2" -> "12gi t2"
      [] OTHER -> ""

\* Variant: the day and title parts are left out when the episode is known
make_dedupe_key_by_episode(season, episode, upload_date, title) ==
    LET season_part == IF season # None THEN season ELSE 0
        day == IF upload_date # None THEN upload_date ELSE 0
        norm == IF normalize_title_for_key(title) # ""
                THEN normalize_title_for_key(title) ELSE "untitled"
    IN IF episode # None THEN <<season_part, <<"e", episode>>, 0, "">>
       ELSE <<season_part, <<>>, day, norm>>

\* make_dedupe_key: f"s{season_part:02d}{episode_part}:d{day}:{norm}", as the
\* tuple of its four parts (the format is injective on them)
make_dedupe_key(season, episode, upload_date, title) ==
    LET season_part == IF season # None THEN season ELSE 0
        day == IF upload_date # None THEN upload_date ELSE 0
        norm == IF normalize_title_for_key(title) # ""
                THEN normalize_title_for_key(title) ELSE "untitled"
        episode_part == IF episode # None THEN <<"e", episode>> ELSE <<>>
    IN <<season_part, episode_part, day, norm>>

\* transcript_hash: sha1 of the lowercased text with whitespace collapsed and
\* punctuation removed; tabulated on the transcript texts of the catalogue
transcript_hash(text) ==
    CASE text = "Hello there" -> "h:hello there"
      [] text = "Hello\nthere" -> "h:hello there"
      [] text = "hello, there!" -> "h:hello there"
      [] text = "Bye" -> "h:bye"
      [] OTHER -> "h:"

---------------------------------------------------------------------------
\* storage.py: the videos table

\* The columns of a payload that upsert_video reads (storage.py:192-216),
\* with the defaults and conversions it applies
UpsertPayload(video) ==
    [video_id |-> video.video_id,
     title |-> IF video.title = "" THEN "(no title)" ELSE video.title,
     upload_date |-> video.upload_date,
     view_count |-> video.view_count,
     comment_count |-> video.comment_count,
     season |-> video.season,
     episode |-> video.episode,
     source |-> video.source,
     is_official |-> IF video.is_official THEN 1 ELSE 0,
     source_priority |-> video.source_priority,
     dedupe_key |-> video.dedupe_key]

\* COALESCE(a, b) on integer columns and on the dedupe key
Coalesce(a, b) == IF a # None THEN a ELSE b
CoalesceKey(a, b) == IF a # NoKey THEN a ELSE b

\* The row INSERT creates: the transcript columns take the table defaults
InsertedRow(p) ==
    [title |-> p.title,
     upload_date |-> p.upload_date,
     view_count |-> p.view_count,
     comment_count |-> p.comment_count,
     season |-> p.season,
     episode |-> p.episode,
     source |-> p.source,
     is_official |-> p.is_official,
     source_priority |-> p.source_priority,
     dedupe_key |-> p.dedupe_key,
     transcript_status |-> "pending",
     transcript_language |-> NoText,
     transcript_type |-> NoText,
     transcript_text |-> NoText,
     transcript_segments |-> <<NoText>>,
     transcript_hash |-> NoText,
     error_message |-> NoText]

\* Variant: the conflict branch also resets the transcript status
MergedRow_resets_transcript(row, p) ==
    [row EXCEPT
        !.title = p.title,
        !.upload_date = p.upload_date,
        !.view_count = p.view_count,
        !.comment_count = p.comment_count,
        !.season = Coalesce(p.season, row.season),
        !.episode = Coalesce(p.episode, row.episode),
        !.source = IF p.source_priority >= row.source_priority
                   THEN p.source ELSE row.source,
        !.is_official = IF p.source_priority >= row.source_priority
                        THEN p.is_official ELSE row.is_official,
        !.source_priority = IF row.source_priority >= p.source_priority
                            THEN row.source_priority ELSE p.source_priority,
        !.dedupe_key = CoalesceKey(p.dedupe_key, row.dedupe_key),
        !.transcript_status = "pending"]

\* Variant: source_priority accumulates instead of taking the maximum
MergedRow_sums_priority(row, p) ==
    [row EXCEPT
        !.title = p.title,
        !.upload_date = p.upload_date,
        !.view_count = p.view_count,
        !.comment_count = p.comment_count,
        !.season = Coalesce(p.season, row.season),
        !.episode = Coalesce(p.episode, row.episode),
        !.source = IF p.source_priority >= row.source_priority
                   THEN p.source ELSE row.source,
        !.is_official = IF p.source_priority >= row.source_priority
                        THEN p.is_official ELSE row.is_official,
        !.source_priority = row.source_priority + p.source_priority,
        !.dedupe_key = CoalesceKey(p.dedupe_key, row.dedupe_key)]

\* Variant: season and episode are overwritten like title, without COALESCE
MergedRow_overwrites_season(row, p) ==
    [row EXCEPT
        !.title = p.title,
        !.upload_date = p.upload_date,
        !.view_count = p.view_count,
        !.comment_count = p.comment_count,
        !.season = p.season,
        !.episode = p.episode,
        !.source = IF p.source_priority >= row.source_priority
                   THEN p.source ELSE row.source,
        !.is_official = IF p.source_priority >= row.source_priority
                        THEN p.is_official ELSE row.is_official,
        !.source_priority = IF row.source_priority >= p.source_priority
                            THEN row.source_priority ELSE p.source_priority,
        !.dedupe_key = CoalesceKey(p.dedupe_key, row.dedupe_key)]

\* Variant: source and is_official are overwritten whatever the priorities
MergedRow_latest_source(row, p) ==
    [row EXCEPT
        !.title = p.title,
        !.upload_date = p.upload_date,
        !.view_count = p.view_count,
        !.comment_count = p.comment_count,
        !.season = Coalesce(p.season, row.season),
        !.episode = Coalesce(p.episode, row.episode),
        !.source = p.source,
        !.is_official = p.is_official,
        !.source_priority = IF row.source_priority >= p.source_priority
                            THEN row.source_priority ELSE p.source_priority,
        !.dedupe_key = CoalesceKey(p.dedupe_key, row.dedupe_key)]

\* ON CONFLICT(video_id) DO UPDATE SET ... (storage.py:233-260)
MergedRow(row, p) ==
    [row EXCEPT
        !.title = p.title,
        !.upload_date = p.upload_date,
        !.view_count = p.view_count,
        !.comment_count = p.comment_count,
        !.season = Coalesce(p.season, row.season),
        !.episode = Coalesce(p.episode, row.episode),
        !.source = IF p.source_priority >= row.source_priority
                   THEN p.source ELSE row.source,
        !.is_official = IF p.source_priority >= row.source_priority
                        THEN p.is_official ELSE row.is_official,
        !.source_priority = IF row.source_priority >= p.source_priority
                            THEN row.source_priority ELSE p.source_priority,
        !.dedupe_key = CoalesceKey(p.dedupe_key, row.dedupe_key)]

\* NasolRepository.upsert_video, as a function of the table
upsert_video(table, video) ==
    LET p == UpsertPayload(video)
    IN IF p.video_id \in DOMAIN table
       THEN [table EXCEPT ![p.video_id] = MergedRow(table[p.video_id], p)]
       ELSE (p.video_id :> InsertedRow(p)) @@ table

\* Variant: the UPDATE leaves transcript_status as it was
update_transcript_keeps_status(table, video_id, transcript) ==
    IF video_id \in DOMAIN table
    THEN [table EXCEPT ![video_id] =
            [@ EXCEPT
                !.transcript_language = transcript.language,
                !.transcript_type = transcript.transcript_type,
                !.transcript_text = transcript.transcript_text,
                !.transcript_segments = transcript.transcript_segments,
                !.transcript_hash = transcript.transcript_hash,
                !.error_message = transcript.error_message]]
    ELSE table

\* NasolRepository.update_transcript: UPDATE ... WHERE video_id = ?
update_transcript(table, video_id, transcript) ==
    IF video_id \in DOMAIN table
    THEN [table EXCEPT ![video_id] =
            [@ EXCEPT
                !.transcript_status = transcript.transcript_status,
                !.transcript_language = transcript.language,
                !.transcript_type = transcript.transcript_type,
                !.transcript_text = transcript.transcript_text,
                !.transcript_segments = transcript.transcript_segments,
                !.transcript_hash = transcript.transcript_hash,
                !.error_message = transcript.error_message]]
    ELSE table

\* Variant: any status but 'pending' counts as a stored transcript
video_has_transcript_not_pending(table, video_id) ==
    video_id \in DOMAIN table /\ table[video_id].transcript_status # "pending"

\* NasolRepository.video_has_transcript
video_has_transcript(table, video_id) ==
    video_id \in DOMAIN table /\ table[video_id].transcript_status = "success"

\* The transcript columns of a row
TranscriptColumns(row) ==
    <<row.transcript_status, row.transcript_language, row.transcript_type,
      row.transcript_text, row.transcript_segments, row.transcript_hash,
      row.error_message>>

\* storage.py: the jobs and job_logs tables

\* NasolRepository.create_job: INSERT ... VALUES (?, 'running', ...)
create_job(table, seasons, include_fallback, dry_run) ==
    Append(table,
        [status |-> "running",
         finished_at |-> NoText,
         seasons |-> seasons,
         include_fallback |-> IF include_fallback THEN 1 ELSE 0,
         dry_run |-> IF dry_run THEN 1 ELSE 0,
         total_candidates |-> 0,
         kept_candidates |-> 0,
         transcript_success |-> 0,
         transcript_fail |-> 0])

\* Variant: the UPDATE writes status and finished_at, not the counters
finish_job_without_counters(table, job_id, status, total_candidates, kept_candidates, transcript_success, transcript_fail) ==
    IF job_id \in DOMAIN table
    THEN [table EXCEPT ![job_id] = [@ EXCEPT !.status = status, !.finished_at = "set"]]
    ELSE table

\* Variant: the UPDATE writes kept_candidates from total_candidates
finish_job_kept_is_total(table, job_id, status, total_candidates, kept_candidates, transcript_success, transcript_fail) ==
    IF job_id \in DOMAIN table
    THEN [table EXCEPT ![job_id] =
            [@ EXCEPT
                !.status = status,
                !.finished_at = "set",
                !.total_candidates = total_candidates,
                !.kept_candidates = total_candidates,
                !.transcript_success = transcript_success,
                !.transcript_fail = transcript_fail]]
    ELSE table

\* Variant: the UPDATE also closes every other row still 'running'
finish_job_every_running(table, job_id, status, total_candidates, kept_candidates, transcript_success, transcript_fail) ==
    [i \in DOMAIN table |->
        IF i = job_id \/ table[i].status = "running"
        THEN [table[i] EXCEPT
                !.status = status,
                !.finished_at = "set",
                !.total_candidates = total_candidates,
                !.kept_candidates = kept_candidates,
                !.transcript_success = transcript_success,
                !.transcript_fail = transcript_fail]
        ELSE table[i]]

\* NasolRepository.finish_job: UPDATE jobs SET ... WHERE job_id = ?  (the
\* timestamp written to finished_at is abstracted to "set")
finish_job(table, job_id, status, total_candidates, kept_candidates, transcript_success, transcript_fail) ==
    IF job_id \in DOMAIN table
    THEN [table EXCEPT ![job_id] =
            [@ EXCEPT
                !.status = status,
                !.finished_at = "set",
                !.total_candidates = total_candidates,
                !.kept_candidates = kept_candidates,
                !.transcript_success = transcript_success,
                !.transcript_fail = transcript_fail]]
    ELSE table

\* NasolRepository.log_job: INSERT INTO job_logs
log_job(table, job_id, message, level) ==
    Append(table, [job_id |-> job_id, level |-> level, message |-> message])
---------------------------------------------------------------------------
\* The upstream platform: a fixed catalogue.  What a run sees of it is
\* decided by the variable world (a listing that raises inside yt_dlp is
\* turned into [] by _extract_entries; a detail request may yield nothing).

\* Flat listing entry of a video: {id, title, description}
Entry(v) ==
    CASE v = "va" -> [id |-> "va", title |-> "11gi 5hoe T1"]
      [] v = "vb" -> [id |-> "vb", title |-> "[HD] 11gi 5hoe T1"]
      [] v = "vc" -> [id |-> "vc", title |-> "12gi T2"]

\* Full metadata of a video, as extract_info returns it
Info(v) ==
    CASE v = "va" -> [title |-> "11gi 5hoe T1", upload_date |-> 20240101,
                      view_count |-> 100, comment_count |-> 1,
                      official_channel |-> TRUE]
      [] v = "vb" -> [title |-> "[HD] 11gi 5hoe T1", upload_date |-> 20240101,
                      view_count |-> 200, comment_count |-> 0,
                      official_channel |-> TRUE]
      [] v = "vc" -> [title |-> "12gi T2", upload_date |-> None,
                      view_count |-> 100000, comment_count |-> 7,
                      official_channel |-> FALSE]

\* The official channel's playlists (title, member entries) and its uploads
Playlists == << [title |-> "11gi", items |-> <<Entry("va")>>] >>
Uploads == <<Entry("va"), Entry("vb")>>

\* The results of the search "naneun solo {season}gi"
SearchResults(season) ==
    CASE season = 11 -> <<Entry("vb"), Entry("vc")>>
      [] season = 12 -> <<Entry("vc")>>
      [] OTHER -> <<>>

\* The outcomes _fetch_transcript can have for a video (collector.py:492-565)
FailedTranscript(status, message) ==
    [transcript_status |-> status, language |-> "", transcript_type |-> "",
     transcript_text |-> "", transcript_segments |-> <<>>,
     error_message |-> message, transcript_hash |-> ""]

SuccessTranscript(text, segments, type) ==
    [transcript_status |-> "success", language |-> "ko", transcript_type |-> type,
     transcript_text |-> text, transcript_segments |-> segments,
     error_message |-> "", transcript_hash |-> transcript_hash(text)]

TranscriptOutcomes(v) ==
    CASE v = "va" -> {SuccessTranscript("Hello there", <<"Hello", "there">>, "manual"),
                      FailedTranscript("error", "boom")}
      [] v = "vb" -> {SuccessTranscript("hello, there!", <<"hello,", "there!">>, "auto"),
                      FailedTranscript("no_transcript", "")}
      [] v = "vc" -> {SuccessTranscript("Bye", <<"Bye">>, "auto"),
                      FailedTranscript("transcripts_disabled", "")}

---------------------------------------------------------------------------
\* collector.py: discovery

\* _seed_from_entry (description is empty in flat listings)
seed_from_entry(entry, source, forced_season, is_official) ==
    [video_id |-> entry.id,
     title |-> entry.title,
     season |-> IF forced_season # None THEN forced_season
                ELSE parse_first_season(entry.title),
     episode |-> parse_episode_number(entry.title),
     source |-> source,
     is_official |-> is_official,
     source_priority |-> IF is_official THEN OfficialPriority ELSE GeneralPriority]

RECURSIVE SeedsOf(_, _, _, _)
SeedsOf(entries, source, forced_season, is_official) ==
    IF entries = <<>> THEN <<>>
    ELSE <<seed_from_entry(Head(entries), source, forced_season, is_official)>>
         \o SeedsOf(Tail(entries), source, forced_season, is_official)

\* The seeds of the playlists whose title names a selected season
RECURSIVE PlaylistSeeds(_, _)
PlaylistSeeds(playlists, seasons) ==
    IF playlists = <<>> THEN <<>>
    ELSE LET season == parse_first_season(Head(playlists).title)
         IN (IF season \in SeqToSet(seasons)
             THEN SeedsOf(Head(playlists).items, "official_playlist", season, TRUE)
             ELSE <<>>)
            \o PlaylistSeeds(Tail(playlists), seasons)

\* The seeds of the uploads whose title names a selected season
RECURSIVE ChannelSeeds(_, _)
ChannelSeeds(entries, seasons) ==
    IF entries = <<>> THEN <<>>
    ELSE LET season == parse_first_season(Head(entries).title)
         IN (IF season \in SeqToSet(seasons)
             THEN <<seed_from_entry(Head(entries), "official_channel", season, TRUE)>>
             ELSE <<>>)
            \o ChannelSeeds(Tail(entries), seasons)

\* _discover_official: list(seeds.values())
discover_official(seasons, playlists, uploads) ==
    DictPutAll(DictPutAll(<<>>, PlaylistSeeds(playlists, seasons)),
               ChannelSeeds(uploads, seasons))

\* _is_relevant_video: the text names the season and the series; every title
\* of the catalogue names the series
is_relevant_video(title, season) == parse_first_season(title) = season

\* The accepted seeds of one search
RECURSIVE AcceptedSeeds(_, _)
AcceptedSeeds(entries, season) ==
    IF entries = <<>> THEN <<>>
    ELSE LET seed == seed_from_entry(Head(entries), "general_search", None, FALSE)
         IN (IF seed.season = season /\ is_relevant_video(seed.title, season)
             THEN <<seed>> ELSE <<>>)
            \o AcceptedSeeds(Tail(entries), season)

\* _discover_fallback: one search for each season, list(seeds.values())
RECURSIVE discover_fallback(_, _, _)
discover_fallback(seeds, seasons, search_ok) ==
    IF seasons = <<>> THEN seeds
    ELSE discover_fallback(
            DictPutAll(seeds, AcceptedSeeds(
                IF search_ok THEN SearchResults(Head(seasons)) ELSE <<>>,
                Head(seasons))),
            Tail(seasons), search_ok)

\* _count_by_season, read at one season
count_by_season(seeds, season) ==
    Cardinality({i \in 1..Len(seeds) : seeds[i].season = season})

\* missing_seasons (collector.py:73-75)
\* Variant: every selected season counts as missing
missing_seasons_all_selected(selected_seasons, official_seeds) == selected_seasons

RECURSIVE missing_seasons(_, _)
missing_seasons(selected_seasons, official_seeds) ==
    IF selected_seasons = <<>> THEN <<>>
    ELSE (IF count_by_season(official_seeds, Head(selected_seasons)) = 0
          THEN <<Head(selected_seasons)>> ELSE <<>>)
         \o missing_seasons(Tail(selected_seasons), official_seeds)

\* Variant: the official seeds are put first, the fallback seeds over them
merge_seed_lists_fallback_last(official, fallback) ==
    DictPutAll(DictPutAll(<<>>, official), fallback)

\* _merge_seed_lists
merge_seed_lists(official, fallback) == DictPutAll(DictPutAll(<<>>, fallback), official)

---------------------------------------------------------------------------
\* collector.py: enrichment, deduplication, order

\* The payload _enrich_candidates builds from a seed and its metadata, or
\* NoPayload when the candidate is skipped
NoPayload == [video_id |-> "none"]

\* Variant: line 342 is left out, every candidate with metadata is kept
enrich_one_any_season(seed, info, target_seasons) ==
    LET title == IF info.title # "" THEN info.title ELSE seed.title
        inferred_season == IF seed.season # None THEN seed.season
                           ELSE parse_first_season(title)
        episode == IF seed.episode # None THEN seed.episode
                   ELSE parse_episode_number(title)
        official == seed.is_official \/ info.official_channel
    IN [video_id |-> seed.video_id,
        title |-> title,
        upload_date |-> info.upload_date,
        view_count |-> info.view_count,
        comment_count |-> info.comment_count,
        season |-> inferred_season,
        episode |-> episode,
        source |-> IF official THEN "official_channel" ELSE seed.source,
        is_official |-> official,
        source_priority |-> IF official THEN OfficialPriority ELSE GeneralPriority,
        dedupe_key |-> make_dedupe_key(inferred_season, episode,
                                       info.upload_date, title)]

enrich_one(seed, info, target_seasons) ==
    LET title == IF info.title # "" THEN info.title ELSE seed.title
        inferred_season == IF seed.season # None THEN seed.season
                           ELSE parse_first_season(title)
        episode == IF seed.episode # None THEN seed.episode
                   ELSE parse_episode_number(title)
        official == seed.is_official \/ info.official_channel
    IN IF inferred_season \notin SeqToSet(target_seasons) THEN NoPayload
       ELSE [video_id |-> seed.video_id,
             title |-> title,
             upload_date |-> info.upload_date,
             view_count |-> info.view_count,
             comment_count |-> info.comment_count,
             season |-> inferred_season,
             episode |-> episode,
             source |-> IF official THEN "official_channel" ELSE seed.source,
             is_official |-> official,
             source_priority |-> IF official THEN OfficialPriority ELSE GeneralPriority,
             dedupe_key |-> make_dedupe_key(inferred_season, episode,
                                            info.upload_date, title)]

\* _is_higher_priority: tuple comparison, left to right
RECURSIVE TupleGreater(_, _)
TupleGreater(a, b) ==
    IF a = <<>> THEN FALSE
    ELSE IF Head(a) # Head(b) THEN Head(a) > Head(b)
    ELSE TupleGreater(Tail(a), Tail(b))

PriorityKey(video) ==
    <<IF video.is_official THEN 1 ELSE 0,
      video.source_priority,
      video.view_count,
      video.comment_count,
      IF video.upload_date # None THEN video.upload_date ELSE 0>>

\* Variant: the view count is compared before the provenance
is_higher_priority_views_first(incoming, existing) ==
    TupleGreater(<<incoming.view_count>> \o PriorityKey(incoming),
                 <<existing.view_count>> \o PriorityKey(existing))

is_higher_priority(incoming, existing) ==
    TupleGreater(PriorityKey(incoming), PriorityKey(existing))

\* by_dedupe_key after the loop of _dedupe_candidates, as its values in
\* insertion order
RECURSIVE DedupeLoop(_, _)
DedupeLoop(by_dedupe_key, by_video_id) ==
    IF by_video_id = <<>> THEN by_dedupe_key
    ELSE LET video == Head(by_video_id)
             hit == {i \in 1..Len(by_dedupe_key) :
                        by_dedupe_key[i].dedupe_key = video.dedupe_key}
             put == IF hit = {} THEN Append(by_dedupe_key, video)
                    ELSE LET i == CHOOSE i \in hit : TRUE
                         IN IF is_higher_priority(video, by_dedupe_key[i])
                            THEN [by_dedupe_key EXCEPT ![i] = video]
                            ELSE by_dedupe_key
         IN DedupeLoop(put, Tail(by_video_id))

\* Variant: the values of by_video_id, not grouped by dedupe key
dedupe_candidates_by_id_only(enriched) == DictPutAll(<<>>, enriched)

\* _dedupe_candidates
dedupe_candidates(enriched) == DedupeLoop(<<>>, DictPutAll(<<>>, enriched))

\* Variant: an unknown episode or upload date sorts first
SortKey_unknown_first(row) ==
    <<IF row.season # None THEN row.season ELSE 999,
      IF row.episode # None THEN row.episode ELSE 0,
      IF row.upload_date # None THEN row.upload_date ELSE 0,
      IdRank(row.video_id)>>

\* The sort key of _sort_candidates
SortKey(row) ==
    <<IF row.season # None THEN row.season ELSE 999,
      IF row.episode # None THEN row.episode ELSE 9999,
      IF row.upload_date # None THEN row.upload_date ELSE 99999999,
      IdRank(row.video_id)>>

\* _sort_candidates: sorted(videos, key=...), the keys being distinct
RECURSIVE sort_candidates(_)
sort_candidates(deduped) ==
    IF deduped = <<>> THEN <<>>
    ELSE LET i == CHOOSE i \in 1..Len(deduped) :
                    \A j \in 1..Len(deduped) :
                        j = i \/ TupleGreater(SortKey(deduped[j]), SortKey(deduped[i]))
         IN <<deduped[i]>>
            \o sort_candidates(SubSeq(deduped, 1, i - 1)
                               \o SubSeq(deduped, i + 1, Len(deduped)))
---------------------------------------------------------------------------
\* NasolCollector.collect() as a state machine.  A position pc names the
\* next call that can raise (a store call, an upstream call, the log
\* callback); a step makes that call and runs the code after it up to the
\* next such call.

\* Exceptions are told apart by the order n in which the run raised them
NoExc == [n |-> 0, msg |-> ""]
NoSummary == [job_id |-> 0]
NoTranscript == [transcript_status |-> "none"]
NoArgs == [seasons |-> <<>>, include_fallback_search |-> FALSE,
           dry_run |-> FALSE, force_transcript_refresh |-> FALSE]

\* The season lists a caller passes
SeasonInputs == {<<>>, <<0, 30>>, <<11>>, <<12, 11, 11>>}

\* At most this many metadata requests of a run yield nothing
MaxDetailFail == 1

UnknownWorld ==
    [playlists |-> "unk", uploads |-> "unk", search |-> "unk",
     detail |-> [v \in VideoIds |-> "unk"]]

Answers(known) == IF known = "unk" THEN {"ok", "fail"} ELSE {known}

DetailAnswers(w, v) ==
    IF w.detail[v] # "unk" THEN {w.detail[v]}
    ELSE IF Cardinality({u \in VideoIds : w.detail[u] = "fail"}) < MaxDetailFail
         THEN {"ok", "fail"} ELSE {"ok"}

InitialLocals ==
    [selected_seasons |-> <<>>, job_id |-> 0,
     transcript_success |-> 0, transcript_fail |-> 0,
     fail_reasons |-> [r \in {} |-> 0],
     total_candidates |-> 0, kept_candidates |-> 0,
     official_seeds |-> <<>>, missing_seasons |-> <<>>, fallback_seeds |-> <<>>,
     merged_seeds |-> <<>>, enriched |-> <<>>, deduped |-> <<>>, ordered |-> <<>>,
     idx |-> 0, transcript |-> NoTranscript, exc |-> NoExc, raised |-> 0,
     tb |-> "none"]

\* Stores a run can find: rows written by earlier upserts and transcript
\* updates of the catalogue's videos
StoredPayload(v, source, is_official) ==
    enrich_one(seed_from_entry(Entry(v), source, None, is_official), Info(v), <<11, 12>>)

AnyOf(S) == CHOOSE x \in S : TRUE
FailureOf(v) == AnyOf({t \in TranscriptOutcomes(v) : t.transcript_status # "success"})
SuccessOf(v) == AnyOf({t \in TranscriptOutcomes(v) : t.transcript_status = "success"})

EmptyStore == [v \in {} |-> 0]

PriorStoreA ==
    LET t1 == upsert_video(EmptyStore, StoredPayload("va", "official_playlist", TRUE))
        t2 == upsert_video(t1, StoredPayload("vb", "official_channel", TRUE))
        t3 == upsert_video(t2, StoredPayload("vc", "general_search", FALSE))
        t4 == update_transcript(t3, "va", SuccessOf("va"))
        t5 == update_transcript(t4, "vb", FailureOf("vb"))
    IN update_transcript(t5, "vc", FailureOf("vc"))

\* Rows written when the upstream described vb and vc otherwise: vb as a
\* general-search hit without episode, vc as a video of the official channel
PriorStoreB ==
    LET t1 == upsert_video(EmptyStore, StoredPayload("va", "official_playlist", TRUE))
        t2 == upsert_video(t1,
                [StoredPayload("vb", "general_search", FALSE) EXCEPT
                    !.episode = None, !.source = "general_search",
                    !.is_official = FALSE, !.source_priority = GeneralPriority,
                    !.dedupe_key = make_dedupe_key(11, None, 20240101, "[HD] 11gi 5hoe T1")])
        t3 == upsert_video(t2,
                [StoredPayload("vc", "general_search", FALSE) EXCEPT
                    !.source = "official_channel", !.is_official = TRUE,
                    !.source_priority = OfficialPriority])
        t4 == update_transcript(t3, "va", FailureOf("va"))
        t5 == update_transcript(t4, "vb", SuccessOf("vb"))
    IN update_transcript(t5, "vc", SuccessOf("vc"))

PriorStores == {EmptyStore, PriorStoreA, PriorStoreB}

\* get_season_summary(selected_seasons): for each selected season that has
\* rows, their number and the number with a transcript
get_season_summary(table, seasons) ==
    {[season |-> s,
      total_videos |-> Cardinality({v \in DOMAIN table : table[v].season = s}),
      transcript_success |-> Cardinality({v \in DOMAIN table :
            table[v].season = s /\ table[v].transcript_status = "success"})]
     : s \in {x \in SeqToSet(seasons) : \E v \in DOMAIN table : table[v].season = x}}

Init ==
    /\ videos \in PriorStores
    /\ jobs = <<>>
    /\ job_logs = <<>>
    /\ pc = "idle"
    /\ args = NoArgs
    /\ world = UnknownWorld
    /\ loc = InitialLocals
    /\ out = [state |-> "none", exc |-> NoExc, summary |-> NoSummary]
    /\ trace = [videos0 |-> videos, jobs0 |-> 0, visits |-> <<>>, runs |-> 0,
                after_previous |-> EmptyStore]
    /\ lastCall = [op |-> "none"]

\* The exception the run raises next
NewExc(l, msg) == [n |-> l.raised + 1, msg |-> msg]

\* collect(), lines 51-53: the call, ensure_season_list and the guard
Call ==
    /\ pc = "idle"
    /\ \E seasons \in SeasonInputs, fb \in BOOLEAN, dry \in BOOLEAN, force \in BOOLEAN :
        LET selected == ensure_season_list(seasons)
        IN /\ args' = [seasons |-> seasons, include_fallback_search |-> fb,
                       dry_run |-> dry, force_transcript_refresh |-> force]
           /\ loc' = [InitialLocals EXCEPT !.selected_seasons = selected,
                                           !.raised = IF selected = <<>> THEN 1 ELSE 0]
           /\ trace' = [videos0 |-> videos, jobs0 |-> Len(jobs), visits |-> <<>>,
                         runs |-> trace.runs + 1, after_previous |-> EmptyStore]
           /\ IF selected = <<>>
              THEN /\ pc' = "done"
                   /\ out' = [state |-> "raised",
                              exc |-> NewExc(InitialLocals, "ValueError: no season selected"),
                              summary |-> NoSummary]
              ELSE /\ pc' = "create_job"
                   /\ out' = [state |-> "none", exc |-> NoExc, summary |-> NoSummary]
    /\ UNCHANGED <<videos, jobs, job_logs, world, lastCall>>

\* line 55: create_job; lines 60-66 set the locals
CreateJob ==
    /\ pc = "create_job"
    /\ jobs' = create_job(jobs, loc.selected_seasons, args.include_fallback_search,
                          args.dry_run)
    /\ loc' = [loc EXCEPT !.job_id = Len(jobs) + 1]
    /\ pc' = "log_start"
    /\ UNCHANGED <<videos, job_logs, args, world, out, trace, lastCall>>

\* A log message: the kind of line and the values formatted into it
Msg(kind, n, m, seasons, text) ==
    [kind |-> kind, n |-> n, m |-> m, seasons |-> seasons, text |-> text]

\* lines 86-87: merge the seed lists, count the candidates
Merged(l) ==
    LET merged == merge_seed_lists(l.official_seeds, l.fallback_seeds)
    IN [l EXCEPT !.merged_seeds = merged, !.total_candidates = Len(merged)]

\* lines 91-93: deduplicate, order, count the kept candidates
Reconciled(l) ==
    LET deduped == dedupe_candidates(l.enriched)
        ordered == sort_candidates(deduped)
    IN [l EXCEPT !.deduped = deduped, !.ordered = ordered,
                 !.kept_candidates = Len(ordered), !.idx = 0]

\* The position of the transcript loop at its item idx (line 106: the store
\* is read only when force_transcript_refresh is false), or line 135 after
\* the last item
LoopPc(l, idx) ==
    IF idx > Len(l.ordered) THEN "finish"
    ELSE IF args.force_transcript_refresh THEN "fetch" ELSE "has_transcript"

LogPcs == {"log_start", "log_fallback", "log_missing", "log_candidates",
           "log_dedupe", "log_saved", "log_dry", "log_transcript", "log_done"}

\* The line each log call writes (lines 69, 78, 81, 88, 94, 99, 102, 124, 143)
LogMessage ==
    CASE pc = "log_start" -> Msg("start", 0, 0, loc.selected_seasons, "")
      [] pc = "log_fallback" -> Msg("fallback_start", 0, 0, loc.missing_seasons, "")
      [] pc = "log_missing" -> Msg("missing_hint", 0, 0, loc.missing_seasons, "")
      [] pc = "log_candidates" -> Msg("candidates", loc.total_candidates, 0, <<>>, "")
      [] pc = "log_dedupe" -> Msg("dedupe_done", Len(loc.enriched), loc.kept_candidates, <<>>, "")
      [] pc = "log_saved" -> Msg("saved", loc.kept_candidates, 0, <<>>, "")
      [] pc = "log_dry" -> Msg("dry_run", 0, 0, <<>>, "")
      [] pc = "log_transcript" -> Msg("transcript", loc.idx, Len(loc.ordered), <<>>,
                                      loc.transcript.transcript_status)
      [] pc = "log_done" -> Msg("completed", 0, 0, <<>>, "")

\* The locals and the position after each log call
AfterLogLoc ==
    CASE pc = "log_missing" -> Merged(loc)
      [] pc = "log_candidates" ->
            IF loc.merged_seeds = <<>> THEN Reconciled(loc) ELSE [loc EXCEPT !.idx = 1]
      [] pc \in {"log_dedupe", "log_saved"} -> [loc EXCEPT !.idx = 1]
      [] pc = "log_transcript" -> [loc EXCEPT !.idx = loc.idx + 1]
      [] OTHER -> loc

AfterLogPc ==
    CASE pc = "log_start" -> "discover_official"
      [] pc = "log_fallback" -> "discover_fallback"
      [] pc = "log_missing" -> "log_candidates"
      [] pc = "log_candidates" -> IF loc.merged_seeds = <<>> THEN "log_dedupe" ELSE "enrich"
      [] pc = "log_dedupe" -> IF loc.ordered = <<>> THEN "log_saved" ELSE "upsert"
      [] pc = "log_saved" -> IF args.dry_run THEN "log_dry" ELSE LoopPc(loc, 1)
      [] pc = "log_dry" -> "finish"
      [] pc = "log_transcript" -> LoopPc(loc, loc.idx + 1)
      [] pc = "log_done" -> "summary"

\* log(message): repo.log_job, then the caller's callback (lines 169-172)
Log ==
    /\ pc \in LogPcs
    /\ job_logs' = log_job(job_logs, loc.job_id, LogMessage, "INFO")
    /\ loc' = AfterLogLoc
    /\ pc' = AfterLogPc
    /\ UNCHANGED <<videos, jobs, args, world, out, trace, lastCall>>

\* The lines _discover_official logs (lines 202, 206, 228)
OfficialLogLines(playlists, seeds) ==
    LET matched == {i \in 1..Len(playlists) :
                        parse_first_season(playlists[i].title)
                            \in SeqToSet(loc.selected_seasons)}
    IN (IF matched = {} THEN <<Msg("no_playlist_match", 0, 0, <<>>, "")>>
        ELSE <<Msg("playlist_items", Cardinality(matched), 0, <<>>, "")>>)
       \o <<Msg("official_done", Cardinality(matched), Len(seeds), <<>>, "")>>

RECURSIVE LogAll(_, _, _)
LogAll(table, job_id, lines) ==
    IF lines = <<>> THEN table
    ELSE LogAll(log_job(table, job_id, Head(lines), "INFO"), job_id, Tail(lines))

\* lines 70-77: _discover_official, the coverage count, missing_seasons
DiscoverOfficial ==
    /\ pc = "discover_official"
    /\ \E p \in Answers(world.playlists), u \in Answers(world.uploads) :
        LET playlists == IF p = "ok" THEN Playlists ELSE <<>>
            uploads == IF u = "ok" THEN Uploads ELSE <<>>
            seeds == discover_official(loc.selected_seasons, playlists, uploads)
            missing == missing_seasons(loc.selected_seasons, seeds)
            found == [loc EXCEPT !.official_seeds = seeds, !.missing_seasons = missing]
        IN /\ world' = [world EXCEPT !.playlists = p, !.uploads = u]
           /\ job_logs' = LogAll(job_logs, loc.job_id, OfficialLogLines(playlists, seeds))
           /\ IF missing # <<>> /\ args.include_fallback_search
              THEN loc' = found /\ pc' = "log_fallback"
              ELSE IF missing # <<>>
              THEN loc' = found /\ pc' = "log_missing"
              ELSE loc' = Merged(found) /\ pc' = "log_candidates"
    /\ UNCHANGED <<videos, jobs, args, out, trace, lastCall>>

\* The lines _discover_fallback logs (line 256), one for each season
RECURSIVE FallbackLogLines(_, _)
FallbackLogLines(seasons, seeds) ==
    IF seasons = <<>> THEN <<>>
    ELSE <<Msg("search_done", count_by_season(seeds, Head(seasons)), 0,
               <<Head(seasons)>>, "")>>
         \o FallbackLogLines(Tail(seasons), seeds)

\* line 79: _discover_fallback(missing_seasons), then lines 86-87
DiscoverFallback ==
    /\ pc = "discover_fallback"
    /\ \E a \in Answers(world.search) :
        LET seeds == discover_fallback(<<>>, loc.missing_seasons, a = "ok")
        IN /\ world' = [world EXCEPT !.search = a]
           /\ job_logs' = LogAll(job_logs, loc.job_id,
                                 FallbackLogLines(loc.missing_seasons, seeds))
           /\ loc' = Merged([loc EXCEPT !.fallback_seeds = seeds])
    /\ pc' = "log_candidates"
    /\ UNCHANGED <<videos, jobs, args, out, trace, lastCall>>

\* lines 334-393, one seed: _extract_video_detail yields the metadata or
\* nothing; after the last seed, lines 91-93.  (The progress line of every
\* 10th seed is not reached by the catalogue's three videos.)
Enrich ==
    /\ pc = "enrich"
    /\ LET seed == loc.merged_seeds[loc.idx]
       IN \E a \in DetailAnswers(world, seed.video_id) :
            LET payload == IF a = "ok"
                           THEN enrich_one(seed, Info(seed.video_id), loc.selected_seasons)
                           ELSE NoPayload
                added == [loc EXCEPT !.enriched = IF payload = NoPayload THEN @
                                                  ELSE Append(@, payload),
                                     !.idx = loc.idx + 1]
            IN /\ world' = [world EXCEPT !.detail[seed.video_id] = a]
               /\ IF loc.idx < Len(loc.merged_seeds)
                  THEN loc' = added /\ pc' = "enrich"
                  ELSE loc' = Reconciled(added) /\ pc' = "log_dedupe"
    /\ UNCHANGED <<videos, jobs, job_logs, args, out, trace, lastCall>>

\* lines 96-97, one payload
Upsert ==
    /\ pc = "upsert"
    /\ videos' = upsert_video(videos, loc.ordered[loc.idx])
    /\ loc' = [loc EXCEPT !.idx = loc.idx + 1]
    /\ pc' = IF loc.idx < Len(loc.ordered) THEN "upsert" ELSE "log_saved"
    /\ UNCHANGED <<jobs, job_logs, args, world, out, trace, lastCall>>

\* What the run observed of one loop item: whether the stored transcript was
\* 'success' when the item was reached, and whether it was fetched
Visit(video_id, fetched) ==
    [video_id |-> video_id,
     had_success |-> (video_id \in DOMAIN videos
                      /\ videos[video_id].transcript_status = "success"),
     fetched |-> fetched]

\* lines 106-109: the item is skipped when the store has its transcript
\* (the progress line of every 10th item is not reached)
HasTranscript ==
    /\ pc = "has_transcript"
    /\ LET video_id == loc.ordered[loc.idx].video_id
       IN IF video_has_transcript(videos, video_id)
          THEN /\ loc' = [loc EXCEPT !.idx = loc.idx + 1]
               /\ pc' = LoopPc(loc, loc.idx + 1)
               /\ trace' = [trace EXCEPT !.visits = Append(@, Visit(video_id, FALSE))]
          ELSE /\ pc' = "fetch"
               /\ UNCHANGED <<loc, trace>>
    /\ UNCHANGED <<videos, jobs, job_logs, args, world, out, lastCall>>

\* line 111: _fetch_transcript, which catches every exception
Fetch ==
    /\ pc = "fetch"
    /\ LET video_id == loc.ordered[loc.idx].video_id
       IN /\ \E t \in TranscriptOutcomes(video_id) : loc' = [loc EXCEPT !.transcript = t]
          /\ trace' = [trace EXCEPT !.visits = Append(@, Visit(video_id, TRUE))]
    /\ pc' = "update_transcript"
    /\ UNCHANGED <<videos, jobs, job_logs, args, world, out, lastCall>>

\* Variant: every status is tallied as a failure reason
Counted_tallies_every_status(l) ==
    LET reason == l.transcript.transcript_status
        tallied == [l EXCEPT !.fail_reasons =
                        (reason :> (IF reason \in DOMAIN @ THEN @[reason] ELSE 0) + 1) @@ @]
    IN IF reason = "success"
       THEN [tallied EXCEPT !.transcript_success = @ + 1]
       ELSE [tallied EXCEPT !.transcript_fail = @ + 1]

\* lines 114-119: the counters after a persisted transcript
Counted(l) ==
    LET reason == l.transcript.transcript_status
    IN IF reason = "success"
       THEN [l EXCEPT !.transcript_success = @ + 1]
       ELSE [l EXCEPT !.transcript_fail = @ + 1,
                      !.fail_reasons =
                          (reason :> (IF reason \in DOMAIN @ THEN @[reason] ELSE 0) + 1) @@ @]

\* lines 112-121: update_transcript, the counters, and whether line 124 logs
UpdateTranscript ==
    /\ pc = "update_transcript"
    /\ videos' = update_transcript(videos, loc.ordered[loc.idx].video_id, loc.transcript)
    /\ IF loc.idx % 5 = 0 \/ loc.transcript.transcript_status # "success"
       THEN loc' = Counted(loc) /\ pc' = "log_transcript"
       ELSE loc' = [Counted(loc) EXCEPT !.idx = loc.idx + 1] /\ pc' = LoopPc(loc, loc.idx + 1)
    /\ UNCHANGED <<jobs, job_logs, args, world, out, trace, lastCall>>

\* line 135: finish_job(status="completed")
FinishCompleted ==
    /\ pc = "finish"
    /\ jobs' = finish_job(jobs, loc.job_id, "completed", loc.total_candidates,
                          loc.kept_candidates, loc.transcript_success, loc.transcript_fail)
    /\ pc' = "log_done"
    /\ UNCHANGED <<videos, job_logs, args, world, loc, out, trace, lastCall>>

\* lines 157-166: the run summary, with get_season_summary
Return ==
    /\ pc = "summary"
    /\ out' = [state |-> "returned", exc |-> NoExc,
               summary |-> [job_id |-> loc.job_id,
                            seasons |-> loc.selected_seasons,
                            total_candidates |-> loc.total_candidates,
                            saved_videos |-> loc.kept_candidates,
                            transcript_success |-> loc.transcript_success,
                            transcript_fail |-> loc.transcript_fail,
                            transcript_fail_reasons |-> loc.fail_reasons,
                            season_summary |->
                                get_season_summary(videos, loc.selected_seasons)]]
    /\ pc' = "done"
    /\ UNCHANGED <<videos, jobs, job_logs, args, world, loc, trace, lastCall>>

\* line 146: the handler's finish_job(status="failed")
ExceptFinish ==
    /\ pc = "except_finish"
    /\ jobs' = finish_job(jobs, loc.job_id, "failed", loc.total_candidates,
                          loc.kept_candidates, loc.transcript_success, loc.transcript_fail)
    /\ pc' = "except_log"
    /\ UNCHANGED <<videos, job_logs, args, world, loc, out, trace, lastCall>>

\* lines 154-155: the handler's ERROR line, then raise
ExceptLog ==
    /\ pc = "except_log"
    /\ job_logs' = log_job(job_logs, loc.job_id, Msg("failed", 0, 0, <<>>, loc.exc.msg), "ERROR")
    /\ out' = [state |-> "raised", exc |-> loc.exc, summary |-> NoSummary]
    /\ pc' = "done"
    /\ UNCHANGED <<videos, jobs, args, world, loc, trace, lastCall>>

---------------------------------------------------------------------------
\* Calls that raise.  A store call that raises has written nothing (each is
\* one SQLite transaction); the log callback raises after its line is
\* written.  Inside the try block (lines 68-143) the exception reaches the
\* handler at line 145; elsewhere it leaves collect().

\* (tb: the position the caught exception was raised at, as its traceback
\* records it)
Caught(l, msg) ==
    [l EXCEPT !.exc = NewExc(l, msg), !.raised = l.raised + 1, !.tb = pc]

StoreCallPcs == LogPcs \cup {"upsert", "has_transcript", "update_transcript", "finish"}

\* A store call of the try block raises
RaiseStore ==
    /\ pc \in StoreCallPcs
    /\ loc' = Caught(loc, "store error")
    /\ pc' = "except_finish"
    /\ UNCHANGED <<videos, jobs, job_logs, args, world, out, trace, lastCall>>

\* The caller's log callback raises (line 172), the line being written
RaiseCallback ==
    /\ pc \in LogPcs
    /\ job_logs' = log_job(job_logs, loc.job_id, LogMessage, "INFO")
    /\ loc' = Caught(loc, "callback error")
    /\ pc' = "except_finish"
    /\ UNCHANGED <<videos, jobs, args, world, out, trace, lastCall>>

\* A log call inside _discover_official or _discover_fallback raises, after
\* some of the lines of that step are written
RaiseDiscovery ==
    /\ pc \in {"discover_official", "discover_fallback"}
    /\ \E k \in 0..1 :
        job_logs' = IF k = 0 THEN job_logs
                    ELSE log_job(job_logs, loc.job_id,
                                 Msg("discovery_progress", 0, 0, <<>>, ""), "INFO")
    /\ loc' = Caught(loc, "store error")
    /\ pc' = "except_finish"
    /\ UNCHANGED <<videos, jobs, args, world, out, trace, lastCall>>

\* Enrichment raises outside _extract_video_detail (lines 333, 368-374)
RaiseEnrich ==
    /\ pc = "enrich"
    /\ loc' = Caught(loc, "upstream error")
    /\ pc' = "except_finish"
    /\ UNCHANGED <<videos, jobs, job_logs, args, world, out, trace, lastCall>>

\* A store call of the handler (lines 146, 154) raises: its exception leaves
\* collect() in place of the caught one
RaiseInHandler ==
    /\ pc \in {"except_finish", "except_log"}
    /\ out' = [state |-> "raised", exc |-> NewExc(loc, "store error"), summary |-> NoSummary]
    /\ loc' = [loc EXCEPT !.raised = loc.raised + 1]
    /\ pc' = "done"
    /\ UNCHANGED <<videos, jobs, job_logs, args, world, trace, lastCall>>

\* A store call outside the try block (lines 55, 165) raises
RaiseOutside ==
    /\ pc \in {"create_job", "summary"}
    /\ out' = [state |-> "raised", exc |-> NewExc(loc, "store error"), summary |-> NoSummary]
    /\ loc' = [loc EXCEPT !.raised = loc.raised + 1]
    /\ pc' = "done"
    /\ UNCHANGED <<videos, jobs, job_logs, args, world, trace, lastCall>>

Step ==
    \/ CreateJob \/ Log \/ DiscoverOfficial \/ DiscoverFallback \/ Enrich
    \/ Upsert \/ HasTranscript \/ Fetch \/ UpdateTranscript \/ FinishCompleted
    \/ Return \/ ExceptFinish \/ ExceptLog

Fault ==
    \/ RaiseStore \/ RaiseCallback \/ RaiseDiscovery \/ RaiseEnrich
    \/ RaiseInHandler \/ RaiseOutside

Next == Call \/ Step \/ Fault

Spec == Init /\ [][Next]_vars

---------------------------------------------------------------------------
\* Properties of collect()

Job == jobs[loc.job_id]

JobCreated == loc.job_id # 0

\* The job row holds the counters of the run's locals
CountersStored ==
    /\ Job.total_candidates = loc.total_candidates
    /\ Job.kept_candidates = loc.kept_candidates
    /\ Job.transcript_success = loc.transcript_success
    /\ Job.transcript_fail = loc.transcript_fail

\* The job's log has an ERROR line carrying the message of exception e
ErrorLogged(e) ==
    \E i \in 1..Len(job_logs) :
        /\ job_logs[i].job_id = loc.job_id
        /\ job_logs[i].level = "ERROR"
        /\ job_logs[i].message.text = e.msg

\* C1: a job row whose status is terminal ('completed' or 'failed') is never
\* written again: no step changes its status, finished_at or counters.
C1_TerminalJobImmutable ==
    [][\A j \in DOMAIN jobs : jobs[j].status # "running" => jobs'[j] = jobs[j]]_vars

SummaryMatchesJob ==
    /\ out.summary.job_id = loc.job_id
    /\ Job.total_candidates = out.summary.total_candidates
    /\ Job.kept_candidates = out.summary.saved_videos
    /\ Job.transcript_success = out.summary.transcript_success
    /\ Job.transcript_fail = out.summary.transcript_fail

EmptySelection == \A i \in 1..Len(args.seasons) : args.seasons[i] \notin MinSeason..MaxSeason

C4_EmptySelectionRecordedFailed ==
    (pc # "idle" /\ EmptySelection) =>
        /\ pc = "done" /\ out.state = "raised"
        /\ \E j \in DOMAIN jobs : j > trace.jobs0 /\ jobs[j].status = "failed"

\* C4 as amended: such a call raises ValueError at once and writes nothing:
\* no job row, no log line, no video row.
C4_EmptySelectionRaisesUnrecorded ==
    (pc # "idle" /\ EmptySelection) =>
        /\ pc = "done" /\ out.state = "raised"
        /\ out.exc = [n |-> 1, msg |-> "ValueError: no season selected"]
        /\ Len(jobs) = trace.jobs0
        /\ job_logs = <<>>
        /\ videos = trace.videos0

C4_Witness ==
    /\ pc = "done" /\ out.state = "raised" /\ args.seasons = <<0, 30>>

\* C5: a dry run fetches no transcript and updates none: a video it inserts
\* is 'pending', and a video stored before keeps its transcript columns.
C5_DryRunKeepsTranscripts ==
    (pc # "idle" /\ args.dry_run) =>
        /\ pc \notin {"has_transcript", "fetch", "update_transcript", "log_transcript"}
        /\ trace.visits = <<>>
        /\ \A v \in DOMAIN videos :
            IF v \in DOMAIN trace.videos0
            THEN TranscriptColumns(videos[v]) = TranscriptColumns(trace.videos0[v])
            ELSE videos[v].transcript_status = "pending"

C5_Witness ==
    /\ pc = "done" /\ args.dry_run /\ out.state = "returned"
    /\ \E i \in 1..Len(loc.ordered) :
        LET v == loc.ordered[i].video_id
        IN /\ v \in DOMAIN trace.videos0
           /\ trace.videos0[v].transcript_status = "success"
           /\ videos[v].view_count = loc.ordered[i].view_count

\* C7: in the transcript loop a video is fetched exactly when
\* force_transcript_refresh is set or its stored status is not 'success' as
\* the loop reaches it; no video is reached twice, and a run that ends
\* normally has reached every kept video once.
C7_FetchedIffForcedOrNotSuccess ==
    /\ \A i \in 1..Len(trace.visits) :
        /\ trace.visits[i].fetched <=>
                (args.force_transcript_refresh \/ ~trace.visits[i].had_success)
        /\ trace.visits[i].video_id = loc.ordered[i].video_id
    /\ Len(trace.visits) <= Len(loc.ordered)
    /\ \A i, j \in 1..Len(loc.ordered) :
            loc.ordered[i].video_id = loc.ordered[j].video_id => i = j
    /\ (pc = "done" /\ out.state = "returned" /\ ~args.dry_run) =>
            Len(trace.visits) = Len(loc.ordered)

C7_Witness ==
    /\ pc = "done" /\ out.state = "returned" /\ ~args.force_transcript_refresh
    /\ Len(trace.visits) = 2
    /\ trace.visits[1].had_success /\ ~trace.visits[1].fetched
    /\ ~trace.visits[2].had_success /\ trace.visits[2].fetched

---------------------------------------------------------------------------
\* Two runs in succession: collect() is called again with the same arguments
\* after it returned, the upstream answering as it did (world is kept).

MaxRuns == 2

Again ==
    /\ pc = "done"
    /\ out.state = "returned"
    /\ trace.runs < MaxRuns
    /\ loc' = [InitialLocals EXCEPT !.selected_seasons = ensure_season_list(args.seasons)]
    /\ out' = [state |-> "none", exc |-> NoExc, summary |-> NoSummary]
    /\ trace' = [videos0 |-> videos, jobs0 |-> Len(jobs), visits |-> <<>>,
                 runs |-> trace.runs + 1, after_previous |-> videos]
    /\ pc' = "create_job"
    /\ UNCHANGED <<videos, jobs, job_logs, args, world, lastCall>>

NextTwice ==
    \/ Call \/ Again
    \/ CreateJob \/ Log \/ DiscoverOfficial \/ DiscoverFallback \/ Enrich
    \/ Upsert \/ HasTranscript \/ Fetch \/ UpdateTranscript \/ FinishCompleted
    \/ Return

SpecTwice == Init /\ [][NextTwice]_vars

\* The identity columns of every stored video
Identity(table) ==
    [v \in DOMAIN table |->
        <<table[v].season, table[v].episode, table[v].dedupe_key,
          table[v].source, table[v].is_official, table[v].source_priority>>]

\* C6: a second run with the same arguments and the same upstream answers
\* stores the same video ids with the same season, episode, dedupe key,
\* source, is_official and source_priority as the first run left.
C6_SecondRunKeepsIdentity ==
    trace.runs >= 2 => Identity(videos) = Identity(trace.after_previous)

C6_Witness ==
    /\ trace.runs = 2 /\ pc = "done" /\ out.state = "returned"
    /\ Len(loc.enriched) > Len(loc.ordered)
    /\ \E i \in 1..Len(loc.ordered) :
        videos[loc.ordered[i].video_id].source_priority > loc.ordered[i].source_priority

---------------------------------------------------------------------------
\* _dedupe_candidates on its own: every list of enriched candidates with
\* distinct video ids (merged seeds are the values of a dict keyed by id)

Candidate(v, episode, title, official, views) ==
    [video_id |-> v,
     title |-> title,
     upload_date |-> 20240101,
     view_count |-> views,
     comment_count |-> 0,
     season |-> 11,
     episode |-> episode,
     source |-> IF official THEN "official_channel" ELSE "general_search",
     is_official |-> official,
     source_priority |-> IF official THEN OfficialPriority ELSE GeneralPriority,
     dedupe_key |-> make_dedupe_key(11, episode, 20240101, title)]

Candidates(v) ==
    {Candidate(v, episode, title, official, views) :
        episode \in {5, None}, title \in {"11gi 5hoe T1", "[HD] 11gi 5hoe T1"},
        official \in BOOLEAN, views \in {100, 100000}}

RECURSIVE CandidateLists(_)
CandidateLists(ids) ==
    {<<>>} \cup UNION {{<<c>> \o rest : c \in Candidates(v), rest \in CandidateLists(ids \ {v})}
                       : v \in ids}

InitDedupe ==
    /\ videos = EmptyStore
    /\ jobs = <<>>
    /\ job_logs = <<>>
    /\ pc = "dedupe_call"
    /\ args = NoArgs
    /\ world = UnknownWorld
    /\ loc \in {[InitialLocals EXCEPT !.enriched = list] : list \in CandidateLists(VideoIds)}
    /\ out = [state |-> "none", exc |-> NoExc, summary |-> NoSummary]
    /\ trace = [videos0 |-> EmptyStore, jobs0 |-> 0, visits |-> <<>>, runs |-> 0,
                after_previous |-> EmptyStore]
    /\ lastCall = [op |-> "none"]

\* line 91: deduped = self._dedupe_candidates(enriched)
DedupeCall ==
    /\ pc = "dedupe_call"
    /\ loc' = [loc EXCEPT !.deduped = dedupe_candidates(loc.enriched)]
    /\ pc' = "dedupe_return"
    /\ UNCHANGED <<videos, jobs, job_logs, args, world, out, trace, lastCall>>

SpecDedupe == InitDedupe /\ [][DedupeCall]_vars

\* C10: the deduplicated list holds no two records with one video id and no
\* two with one dedupe key, and every dedupe key of the enriched candidates
\* is the key of exactly one of its records.
C10_OneRecordPerKey ==
    pc = "dedupe_return" =>
        /\ \A i, j \in 1..Len(loc.deduped) :
                (\/ loc.deduped[i].video_id = loc.deduped[j].video_id
                 \/ loc.deduped[i].dedupe_key = loc.deduped[j].dedupe_key) => i = j
        /\ \A k \in 1..Len(loc.enriched) :
                Cardinality({i \in 1..Len(loc.deduped) :
                    loc.deduped[i].dedupe_key = loc.enriched[k].dedupe_key}) = 1
        /\ SeqToSet(loc.deduped) \subseteq SeqToSet(loc.enriched)

C10_Witness ==
    /\ pc = "dedupe_return"
    /\ Len(loc.enriched) = 3
    /\ Len(loc.deduped) = 2
    /\ loc.deduped[1] = loc.enriched[3]

---------------------------------------------------------------------------
\* The repository on its own: any sequence of upsert_video and
\* update_transcript calls

NoRow == [absent |-> TRUE]

\* The video the calls address
RepoIds == {"va"}

RepoPayloads ==
    {[video_id |-> v,
      title |-> "11gi 5hoe T1",
      upload_date |-> 20240101,
      view_count |-> 100,
      comment_count |-> 0,
      season |-> season,
      episode |-> episode,
      source |-> IF official THEN "official_channel" ELSE "general_search",
      is_official |-> official,
      source_priority |-> IF official THEN OfficialPriority ELSE GeneralPriority,
      dedupe_key |-> make_dedupe_key(season, episode, 20240101, "11gi 5hoe T1")] :
        v \in RepoIds, season \in {None, 11, 12}, episode \in {None, 5, 6},
        official \in BOOLEAN}

RowOf(table, v) == IF v \in DOMAIN table THEN table[v] ELSE NoRow

InitRepo ==
    /\ videos = EmptyStore
    /\ jobs = <<>>
    /\ job_logs = <<>>
    /\ pc = "idle"
    /\ args = NoArgs
    /\ world = UnknownWorld
    /\ loc = InitialLocals
    /\ out = [state |-> "none", exc |-> NoExc, summary |-> NoSummary]
    /\ trace = [videos0 |-> EmptyStore, jobs0 |-> 0, visits |-> <<>>, runs |-> 0,
                after_previous |-> EmptyStore]
    /\ lastCall = [op |-> "none"]

\* A caller's upsert_video(video)
RepoUpsert ==
    /\ \E video \in RepoPayloads :
        /\ videos' = upsert_video(videos, video)
        /\ lastCall' = [op |-> "upsert_video", video |-> video,
                        before |-> RowOf(videos, video.video_id)]
    /\ UNCHANGED <<jobs, job_logs, pc, args, world, loc, out, trace>>

\* A caller's update_transcript(video_id, transcript)
RepoUpdateTranscript ==
    /\ \E v \in RepoIds : \E t \in TranscriptOutcomes(v) :
        /\ videos' = update_transcript(videos, v, t)
        /\ lastCall' = [op |-> "update_transcript", video |-> [video_id |-> v],
                        before |-> RowOf(videos, v)]
    /\ UNCHANGED <<jobs, job_logs, pc, args, world, loc, out, trace>>

NextRepo == RepoUpsert \/ RepoUpdateTranscript

SpecRepo == InitRepo /\ [][NextRepo]_vars

\* The row the last call addressed, before and after it
Before == lastCall.before
After == videos[lastCall.video.video_id]

\* C8: once a video has a season (an episode), every later upsert leaves it
\* one: an upsert carrying None keeps the stored value, an upsert carrying a
\* value stores that value, so episode 5 after episode None leaves 5; and
\* update_transcript changes neither.
C8_NonNullSeasonEpisodeKept ==
    /\ lastCall.op = "upsert_video" =>
        /\ lastCall.video.season # None => After.season = lastCall.video.season
        /\ lastCall.video.episode # None => After.episode = lastCall.video.episode
        /\ (lastCall.video.season = None /\ Before # NoRow) => After.season = Before.season
        /\ (lastCall.video.episode = None /\ Before # NoRow) => After.episode = Before.episode
    /\ (lastCall.op = "update_transcript" /\ Before # NoRow) =>
        /\ After.season = Before.season
        /\ After.episode = Before.episode

C8_Witness ==
    /\ lastCall.op = "upsert_video"
    /\ Before # NoRow
    /\ Before.season = 11 /\ Before.episode = None
    /\ Before.source_priority < lastCall.video.source_priority
    /\ lastCall.video.season = None /\ lastCall.video.episode = 5
    /\ After.season = 11 /\ After.episode = 5

LowerPriorityUpsert ==
    /\ lastCall.op = "upsert_video"
    /\ Before # NoRow
    /\ lastCall.video.source_priority < Before.source_priority

\* C9: an upsert of lower source_priority than the stored row leaves source,
\* is_official, source_priority, season and episode as stored.
C9_LowerPriorityChangesNothing ==
    LowerPriorityUpsert =>
        /\ After.source = Before.source
        /\ After.is_official = Before.is_official
        /\ After.source_priority = Before.source_priority
        /\ After.season = Before.season
        /\ After.episode = Before.episode

\* C9 as amended: such an upsert leaves source, is_official and
\* source_priority as stored; season and episode are kept only where the
\* upsert carries None, and take the upsert's value where it carries one.
C9_LowerPriorityKeepsProvenance ==
    LowerPriorityUpsert =>
        /\ After.source = Before.source
        /\ After.is_official = Before.is_official
        /\ After.source_priority = Before.source_priority
        /\ After.season = IF lastCall.video.season = None THEN Before.season
                          ELSE lastCall.video.season
        /\ After.episode = IF lastCall.video.episode = None THEN Before.episode
                           ELSE lastCall.video.episode

C9_Witness ==
    /\ LowerPriorityUpsert
    /\ Before.season = 11 /\ lastCall.video.season = 12 /\ After.season = 12
    /\ Before.episode = 5 /\ lastCall.video.episode = None /\ After.episode = 5
    /\ After.source = "official_channel" /\ After.source_priority = OfficialPriority

---------------------------------------------------------------------------
\* _dedupe_candidates on candidates of one season and episode that differ in
\* title, upload date, provenance, view count and comment count

WideCandidate(v, title, upload_date, official, views, comments) ==
    [Candidate(v, 5, title, official, views) EXCEPT
        !.upload_date = upload_date,
        !.comment_count = comments,
        !.dedupe_key = make_dedupe_key(11, 5, upload_date, title)]

WidePool ==
    [v \in VideoIds |->
        {WideCandidate(v, title, day, official, views, comments) :
            title \in IF v = "vc" THEN {"11gi 5hoe T1"}
                      ELSE {"11gi 5hoe T1", "11gi 5hoe cut"},
            day \in IF v = "vc" THEN {20240101} ELSE {20240101, 20240102},
            official \in BOOLEAN, views \in {100, 100000}, comments \in {0, 7}}]

RECURSIVE ListsOver(_, _)
ListsOver(ids, pool) ==
    {<<>>} \cup UNION {{<<c>> \o rest : c \in pool[v], rest \in ListsOver(ids \ {v}, pool)}
                       : v \in ids}

InitDedupeWide ==
    /\ videos = EmptyStore
    /\ jobs = <<>>
    /\ job_logs = <<>>
    /\ pc = "dedupe_call"
    /\ args = NoArgs
    /\ world = UnknownWorld
    /\ loc \in {[InitialLocals EXCEPT !.enriched = list] : list \in ListsOver(VideoIds, WidePool)}
    /\ out = [state |-> "none", exc |-> NoExc, summary |-> NoSummary]
    /\ trace = [videos0 |-> EmptyStore, jobs0 |-> 0, visits |-> <<>>, runs |-> 0,
                after_previous |-> EmptyStore]
    /\ lastCall = [op |-> "none"]

SpecDedupeWide == InitDedupeWide /\ [][DedupeCall]_vars

\* a comes before b in the order (is_official, source_priority, view_count,
\* comment_count, upload_date), each field breaking ties of the one before
Outranks(a, b) ==
    LET oa == IF a.is_official THEN 1 ELSE 0
        ob == IF b.is_official THEN 1 ELSE 0
    IN \/ oa > ob
       \/ oa = ob /\ a.source_priority > b.source_priority
       \/ oa = ob /\ a.source_priority = b.source_priority /\ a.view_count > b.view_count
       \/ /\ oa = ob /\ a.source_priority = b.source_priority
          /\ a.view_count = b.view_count /\ a.comment_count > b.comment_count
       \/ /\ oa = ob /\ a.source_priority = b.source_priority
          /\ a.view_count = b.view_count /\ a.comment_count = b.comment_count
          /\ a.upload_date > b.upload_date

\* C11: the record kept for a dedupe key is outranked by no candidate of
\* that key, in whatever order the candidates arrive; an official candidate
\* with 100 views is kept over a general-search one with 100000 views.
C11_WinnerIsMaximal ==
    pc = "dedupe_return" =>
        \A i \in 1..Len(loc.deduped) : \A k \in 1..Len(loc.enriched) :
            loc.enriched[k].dedupe_key = loc.deduped[i].dedupe_key =>
                /\ ~Outranks(loc.enriched[k], loc.deduped[i])
                /\ loc.enriched[k].is_official => loc.deduped[i].is_official

C11_Witness ==
    /\ pc = "dedupe_return"
    /\ Len(loc.enriched) = 3 /\ Len(loc.deduped) = 1
    /\ ~loc.enriched[1].is_official /\ loc.enriched[1].view_count = 100000
    /\ loc.enriched[2].is_official /\ loc.enriched[2].view_count = 100
    /\ loc.enriched[3].is_official /\ loc.enriched[3].comment_count = 7
    /\ loc.enriched[2].comment_count = 0
    /\ loc.deduped[1] = loc.enriched[3]

\* Two candidates of one season and one known episode
SameEpisode(a, b) ==
    a.season = b.season /\ a.episode # None /\ a.episode = b.episode

\* C17: candidates with the same season and the same known episode get the
\* same dedupe key, whatever their upload dates and titles, and
\* deduplication keeps one of them.
C17_KeyFromSeasonAndEpisode ==
    pc = "dedupe_return" =>
        /\ \A i, j \in 1..Len(loc.enriched) :
                SameEpisode(loc.enriched[i], loc.enriched[j]) =>
                    loc.enriched[i].dedupe_key = loc.enriched[j].dedupe_key
        /\ \A i, j \in 1..Len(loc.deduped) :
                SameEpisode(loc.deduped[i], loc.deduped[j]) => i = j

\* C17 as amended: such candidates get the same key exactly when they also
\* have the same upload date and the same normalized title; candidates that
\* differ in either get different keys, and deduplication keeps one record
\* for each (upload date, normalized title) among them.
C17_KeyAlsoFromDateAndTitle ==
    pc = "dedupe_return" =>
        /\ \A i, j \in 1..Len(loc.enriched) :
                SameEpisode(loc.enriched[i], loc.enriched[j]) =>
                    (loc.enriched[i].dedupe_key = loc.enriched[j].dedupe_key
                        <=> /\ loc.enriched[i].upload_date = loc.enriched[j].upload_date
                            /\ normalize_title_for_key(loc.enriched[i].title)
                                    = normalize_title_for_key(loc.enriched[j].title))
        /\ Len(loc.deduped) =
                Cardinality({<<loc.enriched[i].season, loc.enriched[i].episode,
                               loc.enriched[i].upload_date,
                               normalize_title_for_key(loc.enriched[i].title)>> :
                             i \in 1..Len(loc.enriched)})

C17_Witness ==
    /\ pc = "dedupe_return"
    /\ Len(loc.enriched) = 3 /\ Len(loc.deduped) = 3
    /\ \A i, j \in 1..3 : SameEpisode(loc.enriched[i], loc.enriched[j])
    /\ loc.enriched[1].upload_date # loc.enriched[2].upload_date
    /\ loc.enriched[1].title = loc.enriched[2].title
    /\ loc.enriched[3].upload_date = loc.enriched[1].upload_date
    /\ loc.enriched[3].title # loc.enriched[1].title

---------------------------------------------------------------------------
\* Fallback search in collect()

\* The lines of the run's job whose message is of one kind
JobLines(kind) ==
    {i \in 1..Len(job_logs) :
        job_logs[i].job_id = loc.job_id /\ job_logs[i].message.kind = kind}

\* The searches issued for season s, by the line each logs when it is done
\* (line 256)
SearchLines(s) == {i \in JobLines("search_done") : job_logs[i].message.seasons = <<s>>}

\* Authoritative discovery found no candidate of season s
Uncovered(s) == \A i \in 1..Len(loc.official_seeds) : loc.official_seeds[i].season # s

\* Discovery is over: line 88 has logged the number of candidates
DiscoveryDone == JobLines("candidates") # {}

\* C12: a fallback search is issued for season s exactly when
\* include_fallback_search is set and authoritative discovery found nothing
\* for s, once for each such season and never for a covered season; and when
\* some selected season is uncovered the job log has a line naming the
\* missing seasons.
C12_FallbackOnlyForUncoveredSeasons ==
    JobCreated =>
        /\ \A i \in JobLines("search_done") :
            /\ args.include_fallback_search
            /\ \E s \in SeqToSet(loc.selected_seasons) :
                    job_logs[i].message.seasons = <<s>> /\ Uncovered(s)
        /\ \A s \in SeqToSet(loc.selected_seasons) :
            /\ Cardinality(SearchLines(s)) <= 1
            /\ (DiscoveryDone /\ args.include_fallback_search /\ Uncovered(s)) =>
                    SearchLines(s) # {}
        /\ (DiscoveryDone /\ \E s \in SeqToSet(loc.selected_seasons) : Uncovered(s)) =>
                \E i \in JobLines("fallback_start") \cup JobLines("missing_hint") :
                    SeqToSet(job_logs[i].message.seasons)
                        = {s \in SeqToSet(loc.selected_seasons) : Uncovered(s)}

C12_Witness ==
    /\ pc = "done" /\ out.state = "returned"
    /\ args.include_fallback_search
    /\ loc.selected_seasons = <<11, 12>>
    /\ ~Uncovered(11) /\ Uncovered(12)
    /\ SearchLines(11) = {} /\ Cardinality(SearchLines(12)) = 1
    /\ JobLines("fallback_start") # {}

---------------------------------------------------------------------------
\* NasolCollector._fetch_transcript (collector.py:492-565) on its own: the
\* listing of a video's transcript variants, the choice among them, the
\* fetch of the chosen one, and the except clauses.

\* CollectorConfig
max_retries == 3
preferred_languages == <<"ko", "ko-KR", "en", "en-US">>

\* A transcript variant: language_code and is_generated
TVariant(language_code, is_generated) ==
    [language_code |-> language_code, is_generated |-> is_generated]

NoVariant == TVariant("", FALSE)

TVariants ==
    {TVariant("ko", FALSE), TVariant("ko-KR", TRUE), TVariant("ko-KR", FALSE),
     TVariant("en", TRUE), TVariant("en-US", FALSE), TVariant("ja", TRUE)}

\* Longest variant list of a video
MaxVariants == 3

RECURSIVE VariantLists(_, _)
VariantLists(pool, n) ==
    IF n = 0 THEN {<<>>}
    ELSE {<<>>} \cup UNION {{<<t>> \o rest : rest \in VariantLists(pool \ {t}, n - 1)}
                            : t \in pool}

NothingChosen == [chosen |-> NoVariant, chosen_type |-> ""]

TypeOf(t) == IF t.is_generated THEN "auto" ELSE "manual"

\* lines 508-520: the loop over transcript_list, from the choice so far
RECURSIVE ScanVariants(_, _)
ScanVariants(transcript_list, cur) ==
    IF transcript_list = <<>> THEN cur
    ELSE LET transcript == Head(transcript_list)
             language == transcript.language_code
             korean == language \in {"ko", "ko-KR"}
             c1 == IF korean /\ cur.chosen = NoVariant
                   THEN [chosen |-> transcript, chosen_type |-> "auto"] ELSE cur
             c2 == IF language \in SeqToSet(preferred_languages) /\ c1.chosen = NoVariant
                   THEN [chosen |-> transcript, chosen_type |-> TypeOf(transcript)] ELSE c1
         IN IF korean /\ ~transcript.is_generated
            THEN [chosen |-> transcript, chosen_type |-> "manual"]
            ELSE ScanVariants(Tail(transcript_list), c2)

\* Variant: the first variant in a preferred language, whatever its kind
choose_variant_first_preferred(transcript_list) ==
    LET hits == {i \in 1..Len(transcript_list) :
                    transcript_list[i].language_code \in SeqToSet(preferred_languages)}
        first == CHOOSE i \in hits : \A j \in hits : i <= j
    IN IF hits # {}
       THEN [chosen |-> transcript_list[first], chosen_type |-> TypeOf(transcript_list[first])]
       ELSE IF transcript_list # <<>>
       THEN [chosen |-> Head(transcript_list), chosen_type |-> TypeOf(Head(transcript_list))]
       ELSE NothingChosen

\* lines 506-526: the loop, then the first variant when the loop chose none
choose_variant(transcript_list) ==
    LET c == ScanVariants(transcript_list, NothingChosen)
    IN IF c.chosen = NoVariant /\ transcript_list # <<>>
       THEN [chosen |-> Head(transcript_list), chosen_type |-> TypeOf(Head(transcript_list))]
       ELSE c

\* What chosen.fetch() yields: the texts of the segments
FetchedTexts == {<<"Hello", " ", "there">>, <<"Bye">>, <<" ">>}

\* lines 533-541: the segments with a non-blank text
RECURSIVE NonBlank(_)
NonBlank(texts) ==
    IF texts = <<>> THEN <<>>
    ELSE (IF Head(texts) = " " THEN <<>> ELSE <<Head(texts)>>) \o NonBlank(Tail(texts))

\* line 542: the texts joined by newlines
JoinLines(texts) ==
    CASE texts = <<"Hello", "there">> -> "Hello\nthere"
      [] texts = <<"Bye">> -> "Bye"
      [] OTHER -> ""

\* The exceptions the transcript API raises, with str(exc)
ApiErrors ==
    {[kind |-> "NoTranscriptFound", text |-> "not found"],
     [kind |-> "TranscriptsDisabled", text |-> "disabled"],
     [kind |-> "Exception", text |-> "429 too many requests"],
     [kind |-> "Exception", text |-> "<html> of 200 characters"]}

\* The number of characters of a message: the messages of ApiErrors and the
\* prefix of the long one
MessageLength(text) ==
    CASE text = "" -> 0
      [] text = "not found" -> 9
      [] text = "disabled" -> 8
      [] text = "429 too many requests" -> 21
      [] text = "<html> of 200 characters" -> 200
      [] text = "<html> first 180 characters" -> 180

\* Variant: the message is kept whole
str_exc_whole(text) == text

\* line 564: str(exc)[:180]
str_exc_180(text) ==
    IF MessageLength(text) <= 180 THEN text ELSE "<html> first 180 characters"

\* Variant: every exception is recorded as 'error'
except_payload_all_error(e) == FailedTranscript("error", str_exc_180(e.text))

\* lines 556-565: the payload each except clause returns
except_payload(e) ==
    CASE e.kind = "NoTranscriptFound" -> FailedTranscript("no_transcript", "")
      [] e.kind = "TranscriptsDisabled" -> FailedTranscript("transcripts_disabled", "")
      [] OTHER -> FailedTranscript("error", str_exc_180(e.text))

InitFetch ==
    /\ videos = EmptyStore
    /\ jobs = <<>>
    /\ job_logs = <<>>
    /\ pc = "api_list"
    /\ args = NoArgs
    /\ world \in {[variants |-> list] : list \in VariantLists(TVariants, MaxVariants)}
    /\ loc = [listed |-> FALSE, chosen |-> NoVariant, chosen_type |-> "", exc |-> ""]
    /\ out = NoTranscript
    /\ trace = [list_calls |-> 0, fetch_calls |-> 0]
    /\ lastCall = [op |-> "none"]

\* lines 503-530: api.list returns; the choice; no variant at all
ListVariants ==
    /\ pc = "api_list"
    /\ trace' = [trace EXCEPT !.list_calls = @ + 1]
    /\ LET c == choose_variant(world.variants)
       IN /\ loc' = [loc EXCEPT !.listed = TRUE, !.chosen = c.chosen,
                                !.chosen_type = c.chosen_type]
          /\ IF c.chosen = NoVariant
             THEN pc' = "returned" /\ out' = FailedTranscript("no_transcript", "")
             ELSE pc' = "chosen_fetch" /\ out' = out
    /\ UNCHANGED <<videos, jobs, job_logs, args, world, lastCall>>

\* line 504: api.list raises
ListRaises ==
    /\ pc = "api_list"
    /\ trace' = [trace EXCEPT !.list_calls = @ + 1]
    /\ \E e \in ApiErrors :
        /\ loc' = [loc EXCEPT !.exc = e.kind]
        /\ out' = except_payload(e)
    /\ pc' = "returned"
    /\ UNCHANGED <<videos, jobs, job_logs, args, world, lastCall>>

\* lines 532-554: chosen.fetch() returns; the success payload
FetchChosen ==
    /\ pc = "chosen_fetch"
    /\ trace' = [trace EXCEPT !.fetch_calls = @ + 1]
    /\ \E fetched \in FetchedTexts :
        LET segments == NonBlank(fetched)
            transcript_text == JoinLines(segments)
        IN out' = [transcript_status |-> "success",
                   language |-> loc.chosen.language_code,
                   transcript_type |-> loc.chosen_type,
                   transcript_text |-> transcript_text,
                   transcript_segments |-> segments,
                   error_message |-> "",
                   transcript_hash |-> transcript_hash(transcript_text)]
    /\ pc' = "returned"
    /\ UNCHANGED <<videos, jobs, job_logs, args, world, loc, lastCall>>

\* line 532: chosen.fetch() raises
FetchRaises ==
    /\ pc = "chosen_fetch"
    /\ trace' = [trace EXCEPT !.fetch_calls = @ + 1]
    /\ \E e \in ApiErrors :
        /\ loc' = [loc EXCEPT !.exc = e.kind]
        /\ out' = except_payload(e)
    /\ pc' = "returned"
    /\ UNCHANGED <<videos, jobs, job_logs, args, world, lastCall>>

NextFetch == ListVariants \/ ListRaises \/ FetchChosen \/ FetchRaises

SpecFetch == InitFetch /\ [][NextFetch]_vars

\* The variants of the listing that are Korean, manually authored Korean,
\* or in another configured language
Korean == {i \in 1..Len(world.variants) : world.variants[i].language_code \in {"ko", "ko-KR"}}
ManualKorean == {i \in Korean : ~world.variants[i].is_generated}
OtherConfigured ==
    {i \in 1..Len(world.variants) : world.variants[i].language_code \in {"en", "en-US"}}

First(S) == CHOOSE i \in S : \A j \in S : i <= j

\* C13: when the listing holds a manually authored Korean variant, that
\* variant is the one chosen, wherever it stands in the list.
C13_ManualKoreanChosen ==
    (loc.listed /\ ManualKorean # {}) =>
        /\ loc.chosen = world.variants[First(ManualKorean)]
        /\ loc.chosen_type = "manual"
        /\ pc = "returned" /\ out.transcript_status = "success" =>
                /\ out.language = loc.chosen.language_code
                /\ out.transcript_type = "manual"

C13_Witness ==
    /\ pc = "returned" /\ out.transcript_status = "success"
    /\ world.variants = <<TVariant("ko-KR", TRUE), TVariant("en", TRUE), TVariant("ko-KR", FALSE)>>
    /\ out.language = "ko-KR" /\ out.transcript_type = "manual"

\* C19: the choice follows the priority manual Korean, else auto-generated
\* Korean, else a variant in another configured language, else the first
\* listed variant, for every ordering of the list.
C19_ChoiceFollowsPriority ==
    loc.listed =>
        loc.chosen =
            IF ManualKorean # {} THEN world.variants[First(ManualKorean)]
            ELSE IF Korean # {} THEN world.variants[First(Korean)]
            ELSE IF OtherConfigured # {} THEN world.variants[First(OtherConfigured)]
            ELSE IF world.variants # <<>> THEN world.variants[1]
            ELSE NoVariant

\* C20: a fault while listing or fetching is re-attempted, up to max_retries
\* attempts, before the video is recorded with status 'error'.
C20_ErrorAfterRetries ==
    (pc = "returned" /\ out.transcript_status = "error") =>
        /\ trace.list_calls + trace.fetch_calls > 1
        /\ trace.list_calls = max_retries \/ trace.fetch_calls = max_retries

\* C20 as amended: the first fault of api.list or chosen.fetch() ends the
\* attempt: _fetch_transcript returns a payload after one listing and at
\* most one fetch, with status 'no_transcript' or 'transcripts_disabled' for
\* those two exceptions and 'error' with the first 180 characters of the
\* exception's text for any other.
C20_ErrorAfterOneAttempt ==
    pc = "returned" =>
        /\ trace.list_calls = 1
        /\ trace.fetch_calls <= 1
        /\ out.transcript_status \in
                {"success", "no_transcript", "transcripts_disabled", "error"}
        /\ loc.exc = "Exception" <=> out.transcript_status = "error"
        /\ loc.exc = "TranscriptsDisabled" <=> out.transcript_status = "transcripts_disabled"
        /\ loc.exc = "NoTranscriptFound" => out.transcript_status = "no_transcript"
        /\ out.transcript_status = "error" =>
            out.error_message \in {"429 too many requests", "<html> first 180 characters"}
        /\ out.transcript_status # "success" => out.transcript_text = ""

C20_Witness ==
    /\ pc = "returned" /\ out.transcript_status = "error"
    /\ loc.listed /\ loc.chosen # NoVariant
    /\ trace.list_calls = 1 /\ trace.fetch_calls = 1

---------------------------------------------------------------------------
\* A fault in the transcript loop of collect()

\* The calls of the loop body that can raise (lines 106, 112, 124)
TranscriptLoopPcs == {"has_transcript", "update_transcript", "log_transcript"}

\* The transcript columns update_transcript writes for a result
OutcomeColumns(t) ==
    <<t.transcript_status, t.language, t.transcript_type, t.transcript_text,
      t.transcript_segments, t.transcript_hash, t.error_message>>

\* The items whose transcript the run persisted before the fault at item
\* loc.idx: those before it, and the item itself if only its log line failed
Persisted ==
    {i \in 1..Len(trace.visits) :
        /\ trace.visits[i].fetched
        /\ i < loc.idx \/ loc.tb = "log_transcript"}

\* What a fault at item loc.idx leaves in the videos table
PartialProgressKept ==
    /\ \A i \in 1..Len(loc.ordered) :
        LET v == loc.ordered[i].video_id
        IN /\ v \in DOMAIN videos
           /\ videos[v].title = loc.ordered[i].title
           /\ videos[v].view_count = loc.ordered[i].view_count
           /\ videos[v].comment_count = loc.ordered[i].comment_count
    /\ Len(trace.visits) <= loc.idx
    /\ \A i \in 1..Len(trace.visits) :
        LET v == loc.ordered[i].video_id
        IN /\ trace.visits[i].video_id = v
           /\ i \in Persisted =>
                \E t \in TranscriptOutcomes(v) : TranscriptColumns(videos[v]) = OutcomeColumns(t)
           /\ i \notin Persisted =>
                TranscriptColumns(videos[v]) =
                    IF v \in DOMAIN trace.videos0
                    THEN TranscriptColumns(trace.videos0[v])
                    ELSE TranscriptColumns(InsertedRow(UpsertPayload(loc.ordered[i])))
    /\ \A i \in (loc.idx + 1)..Len(loc.ordered) :
        LET v == loc.ordered[i].video_id
        IN TranscriptColumns(videos[v]) =
                IF v \in DOMAIN trace.videos0
                THEN TranscriptColumns(trace.videos0[v])
                ELSE TranscriptColumns(InsertedRow(UpsertPayload(loc.ordered[i])))
    /\ loc.transcript_success =
            Cardinality({i \in Persisted :
                videos[loc.ordered[i].video_id].transcript_status = "success"})
    /\ loc.transcript_fail =
            Cardinality({i \in Persisted :
                videos[loc.ordered[i].video_id].transcript_status # "success"})

---------------------------------------------------------------------------
\* The jobs and job_logs tables on their own: any sequence of create_job,
\* finish_job, log_job, get_job_logs and list_recent_jobs calls

\* Most lines the job_logs table holds
MaxLogLines == 3

\* The jobs a caller creates (job_id = position in the jobs table)
JobSlots == {1, 2}

\* The limit arguments callers pass
Limits == {0, 1, 2, 5}

\* No status keyword in a call of list_recent_jobs
NoStatus == "no status"

Take(rows, limit) == SubSeq(rows, 1, IF limit < Len(rows) THEN limit ELSE Len(rows))

\* SELECT level, message FROM job_logs WHERE job_id = ? ORDER BY id ASC
\* (created_at is not modelled)
RECURSIVE LinesOfJob(_, _)
LinesOfJob(table, job_id) ==
    IF table = <<>> THEN <<>>
    ELSE (IF Head(table).job_id = job_id
          THEN <<[level |-> Head(table).level, message |-> Head(table).message]>>
          ELSE <<>>)
         \o LinesOfJob(Tail(table), job_id)

\* Variant: the WHERE clause is left out
get_job_logs_of_any_job(table, job_id, limit) ==
    Take([i \in 1..Len(table) |->
            [level |-> table[i].level, message |-> table[i].message]], limit)

\* NasolRepository.get_job_logs: ... LIMIT ?
get_job_logs(table, job_id, limit) == Take(LinesOfJob(table, job_id), limit)

\* SELECT * FROM jobs ORDER BY started_at DESC: the rows, latest first (jobs
\* are taken to start at different seconds, so started_at orders them as
\* they were created)
RECURSIVE JobsLatestFirst(_, _)
JobsLatestFirst(table, n) ==
    IF n = 0 THEN <<>>
    ELSE <<[job_id |-> n, status |-> table[n].status,
            finished_at |-> table[n].finished_at]>> \o JobsLatestFirst(table, n - 1)

\* NasolRepository.list_recent_jobs(limit)
list_recent_jobs(table, limit) == Take(JobsLatestFirst(table, Len(table)), limit)

InitJobs ==
    /\ videos = EmptyStore
    /\ jobs = <<>>
    /\ job_logs = <<>>
    /\ pc = "idle"
    /\ args = NoArgs
    /\ world = UnknownWorld
    /\ loc = InitialLocals
    /\ out = [state |-> "none"]
    /\ trace = [videos0 |-> EmptyStore, jobs0 |-> 0, visits |-> <<>>, runs |-> 0,
                after_previous |-> EmptyStore]
    /\ lastCall = [op |-> "none", logs_before |-> <<>>]

\* A caller's create_job(seasons, include_fallback, dry_run)
JobsCreate ==
    /\ Len(jobs) + 1 \in JobSlots
    /\ jobs' = create_job(jobs, <<11>>, TRUE, FALSE)
    /\ out' = [state |-> "returned", job_id |-> Len(jobs) + 1]
    /\ lastCall' = [op |-> "create_job", logs_before |-> job_logs]
    /\ UNCHANGED <<videos, job_logs, pc, args, world, loc, trace>>

\* A caller's finish_job(job_id, status, ...)
JobsFinish ==
    /\ \E job_id \in DOMAIN jobs, status \in {"completed", "failed"} :
        jobs' = finish_job(jobs, job_id, status, 2, 1, 1, 0)
    /\ out' = [state |-> "returned"]
    /\ lastCall' = [op |-> "finish_job", logs_before |-> job_logs]
    /\ UNCHANGED <<videos, job_logs, pc, args, world, loc, trace>>

\* A caller's log_job(job_id, message, level)
JobsLog ==
    /\ Len(job_logs) < MaxLogLines
    /\ \E job_id \in JobSlots, level \in {"INFO", "ERROR"} :
        LET message == IF level = "INFO" THEN Msg("start", 0, 0, <<11>>, "")
                       ELSE Msg("failed", 0, 0, <<>>, "store error")
        IN /\ job_logs' = log_job(job_logs, job_id, message, level)
           /\ lastCall' = [op |-> "log_job", logs_before |-> job_logs,
                           job_id |-> job_id, level |-> level, message |-> message]
    /\ out' = [state |-> "returned"]
    /\ UNCHANGED <<videos, jobs, pc, args, world, loc, trace>>

\* A caller's get_job_logs(job_id, limit)
JobsGetLogs ==
    /\ \E job_id \in JobSlots, limit \in Limits :
        /\ out' = [state |-> "returned", rows |-> get_job_logs(job_logs, job_id, limit)]
        /\ lastCall' = [op |-> "get_job_logs", logs_before |-> job_logs,
                        job_id |-> job_id, limit |-> limit]
    /\ UNCHANGED <<videos, jobs, job_logs, pc, args, world, loc, trace>>

\* A caller's list_recent_jobs(limit=..., status=...): the method has no
\* status parameter (storage.py:388), so a call that passes the keyword
\* raises TypeError before the query runs
JobsListRecent ==
    /\ \E limit \in Limits, status \in {NoStatus, "running"} :
        /\ out' = IF status # NoStatus
                  THEN [state |-> "raised", exc |-> "TypeError"]
                  ELSE [state |-> "returned", rows |-> list_recent_jobs(jobs, limit)]
        /\ lastCall' = [op |-> "list_recent_jobs", logs_before |-> job_logs,
                        limit |-> limit, status |-> status]
    /\ UNCHANGED <<videos, jobs, job_logs, pc, args, world, loc, trace>>

NextJobs == JobsCreate \/ JobsFinish \/ JobsLog \/ JobsGetLogs \/ JobsListRecent

SpecJobs == InitJobs /\ [][NextJobs]_vars

\* The positions of a job's lines in the job_logs table
PositionsOf(job_id) == {i \in DOMAIN job_logs : job_logs[i].job_id = job_id}

\* The position of a job's r-th line
NthPositionOf(job_id, r) ==
    CHOOSE i \in PositionsOf(job_id) :
        Cardinality({x \in PositionsOf(job_id) : x <= i}) = r

AppendOnly ==
    /\ lastCall.op = "log_job" =>
        /\ Len(job_logs) = Len(lastCall.logs_before) + 1
        /\ SubSeq(job_logs, 1, Len(lastCall.logs_before)) = lastCall.logs_before
        /\ job_logs[Len(job_logs)] = [job_id |-> lastCall.job_id,
                                       level |-> lastCall.level,
                                       message |-> lastCall.message]
    /\ lastCall.op # "log_job" => job_logs = lastCall.logs_before

ReadsOwnLinesInOrder ==
    lastCall.op = "get_job_logs" =>
        LET n == Cardinality(PositionsOf(lastCall.job_id))
            k == IF lastCall.limit < n THEN lastCall.limit ELSE n
        IN /\ out.state = "returned"
           /\ Len(out.rows) = k
           /\ \A r \in 1..k :
                LET line == job_logs[NthPositionOf(lastCall.job_id, r)]
                IN out.rows[r] = [level |-> line.level, message |-> line.message]

\* C15: log_job adds exactly one line at the end of job_logs and changes no
\* earlier line, no other call changes job_logs, every line carries one
\* job_id, and get_job_logs(job_id, limit) returns that job's lines only, in
\* insertion order, the first min(limit, n) of them.
C15_LogsAppendOnlyAndReadPerJob ==
    /\ AppendOnly
    /\ \A i \in DOMAIN job_logs : job_logs[i].job_id \in JobSlots
    /\ ReadsOwnLinesInOrder

\* Two jobs' lines interleaved, and a read of job 1 cut short by its limit
C15_Witness ==
    /\ lastCall.op = "get_job_logs"
    /\ lastCall.job_id = 1
    /\ lastCall.limit = 1
    /\ Len(job_logs) = 3
    /\ job_logs[1].job_id = 2
    /\ job_logs[2].job_id = 1
    /\ job_logs[3].job_id = 1
    /\ Len(out.rows) = 1

\* C16: list_recent_jobs(limit, status) returns at most limit jobs, latest
\* first, and with a status given only the jobs in that status, as the
\* dashboard's list_recent_jobs(limit=5, status='running') expects.
C16_StatusFilterReturnsMatchingJobs ==
    lastCall.op = "list_recent_jobs" =>
        /\ out.state = "returned"
        /\ Len(out.rows) <= lastCall.limit
        /\ \A i \in DOMAIN out.rows :
            /\ lastCall.status # NoStatus => out.rows[i].status = lastCall.status
            /\ \A k \in DOMAIN out.rows : i < k => out.rows[i].job_id > out.rows[k].job_id
        /\ \A j \in DOMAIN jobs :
            (Len(out.rows) < lastCall.limit
             /\ (lastCall.status = NoStatus \/ jobs[j].status = lastCall.status))
            => \E i \in DOMAIN out.rows : out.rows[i].job_id = j

---------------------------------------------------------------------------
\* Runs in succession on a database that starts empty: collect() is called
\* again with the same arguments after it returned, and the upstream may
\* answer the later run otherwise than the earlier one (world is drawn anew).

InitRuns ==
    /\ Init
    /\ videos = EmptyStore

AgainLater ==
    /\ pc = "done"
    /\ out.state = "returned"
    /\ trace.runs < MaxRuns
    /\ world' = UnknownWorld
    /\ loc' = [InitialLocals EXCEPT !.selected_seasons = ensure_season_list(args.seasons)]
    /\ out' = [state |-> "none", exc |-> NoExc, summary |-> NoSummary]
    /\ trace' = [videos0 |-> videos, jobs0 |-> Len(jobs), visits |-> <<>>,
                 runs |-> trace.runs + 1, after_previous |-> videos]
    /\ pc' = "create_job"
    /\ UNCHANGED <<videos, jobs, job_logs, args, lastCall>>

NextRuns ==
    \/ Call \/ AgainLater
    \/ CreateJob \/ Log \/ DiscoverOfficial \/ DiscoverFallback \/ Enrich
    \/ Upsert \/ HasTranscript \/ Fetch \/ UpdateTranscript \/ FinishCompleted
    \/ Return

SpecRuns == InitRuns /\ [][NextRuns]_vars

\* C18: after any sequence of collect() runs, no two rows of the videos
\* table share a dedupe key.
C18_NoTwoRowsShareDedupeKey ==
    (pc = "done" /\ out.state = "returned") =>
        \A v \in DOMAIN videos, u \in DOMAIN videos :
            videos[v].dedupe_key = videos[u].dedupe_key => v = u

---------------------------------------------------------------------------
\* _enrich_candidates on its own: the loop over the seeds, one step for each
\* metadata request of _extract_video_detail.  The seeds are any the method
\* can be given, with or without a season and a title.

\* Variant: the first request that raises is the last
attempts_exhausted_at_first(attempt) == attempt >= 1

\* line 401: the attempt that raised was the last one
attempts_exhausted(attempt) == attempt >= max_retries

\* What a metadata request can do: return the metadata, return it without a
\* title, return nothing (ignoreerrors), or raise
DetailReplies == {"info", "untitled", "nothing", "raise"}

InfoOf(v, reply) == IF reply = "untitled" THEN [Info(v) EXCEPT !.title = ""] ELSE Info(v)

EnrichSeeds ==
    {[seed_from_entry(Entry(v), "general_search", None, FALSE) EXCEPT
        !.season = s, !.title = t]
     : v \in VideoIds, s \in {None, 11, 12}, t \in {"", "11gi 5hoe T1", "12gi T2"}}

EnrichSeedLists ==
    {<<>>} \cup {<<a>> : a \in EnrichSeeds}
           \cup {<<a, b>> : a \in EnrichSeeds,
                            b \in {x \in EnrichSeeds : x.video_id = "vc"}}

InitEnrich ==
    /\ videos = EmptyStore
    /\ jobs = <<>>
    /\ job_logs = <<>>
    /\ args = NoArgs
    /\ world = UnknownWorld
    /\ \E seeds \in {l \in EnrichSeedLists :
                        \A i, j \in DOMAIN l : l[i].video_id = l[j].video_id => i = j},
          target_seasons \in {<<11>>, <<11, 12>>} :
        /\ loc = [seeds |-> seeds, target_seasons |-> target_seasons,
                  idx |-> 1, attempt |-> 1, enriched |-> <<>>]
        /\ pc = IF seeds = <<>> THEN "returned" ELSE "extract_info"
    /\ out = [state |-> "none"]
    /\ trace = [requests |-> <<>>]
    /\ lastCall = [op |-> "none"]

\* The requests made so far, the one for the current attempt added
Requested(reply) ==
    IF loc.attempt = 1 THEN Append(trace.requests, <<reply>>)
    ELSE [trace.requests EXCEPT ![Len(trace.requests)] = Append(@, reply)]

\* lines 334-393: the loop body after _extract_video_detail (the seed's
\* payload is appended unless it is skipped), then the next seed or the return
NextSeed(payload) ==
    LET enriched == IF payload = NoPayload THEN loc.enriched
                    ELSE Append(loc.enriched, payload)
    IN /\ loc' = [loc EXCEPT !.enriched = enriched, !.idx = loc.idx + 1, !.attempt = 1]
       /\ IF loc.idx < Len(loc.seeds)
          THEN pc' = "extract_info" /\ out' = out
          ELSE pc' = "returned" /\ out' = [state |-> "returned", enriched |-> enriched]

\* line 399: extract_info returns
DetailReturns ==
    /\ pc = "extract_info"
    /\ \E reply \in DetailReplies \ {"raise"} :
        /\ trace' = [trace EXCEPT !.requests = Requested(reply)]
        /\ LET seed == loc.seeds[loc.idx]
           IN NextSeed(IF reply = "nothing" THEN NoPayload
                       ELSE enrich_one(seed, InfoOf(seed.video_id, reply),
                                       loc.target_seasons))
    /\ UNCHANGED <<videos, jobs, job_logs, args, world, lastCall>>

\* lines 400-404: extract_info raises; another attempt after the backoff,
\* or None
DetailRaises ==
    /\ pc = "extract_info"
    /\ trace' = [trace EXCEPT !.requests = Requested("raise")]
    /\ IF attempts_exhausted(loc.attempt)
       THEN NextSeed(NoPayload)
       ELSE /\ loc' = [loc EXCEPT !.attempt = loc.attempt + 1]
            /\ UNCHANGED <<pc, out>>
    /\ UNCHANGED <<videos, jobs, job_logs, args, world, lastCall>>

NextEnrich == DetailReturns \/ DetailRaises

SpecEnrich == InitEnrich /\ [][NextEnrich]_vars

\* The seeds whose requests are over
Settled == {i \in DOMAIN trace.requests : i < loc.idx}

EnrichedIds == {loc.enriched[k].video_id : k \in DOMAIN loc.enriched}

\* C21: a candidate gets at most max_retries metadata requests; a request
\* that raises is followed by another while attempts remain, the first that
\* returns is the last; a candidate whose requests all raised, or whose
\* request returned nothing, is not in the enriched list, and the loop goes
\* on to the next candidate until it returns.
C21_BoundedRequestsThenDropped ==
    /\ \A i \in DOMAIN trace.requests :
        LET req == trace.requests[i]
        IN /\ Len(req) >= 1 /\ Len(req) <= max_retries
           /\ \A k \in 1..(Len(req) - 1) : req[k] = "raise"
           /\ i \in Settled =>
                /\ req[Len(req)] = "raise" => Len(req) = max_retries
                /\ req[Len(req)] \in {"raise", "nothing"}
                    => loc.seeds[i].video_id \notin EnrichedIds
    /\ pc = "extract_info" =>
        /\ loc.idx \in DOMAIN loc.seeds
        /\ Len(trace.requests) \in {loc.idx - 1, loc.idx}
    /\ pc = "returned" =>
        /\ Len(trace.requests) = Len(loc.seeds)
        /\ Settled = DOMAIN loc.seeds
        /\ loc.seeds # <<>> => out = [state |-> "returned", enriched |-> loc.enriched]

\* The first candidate given up after max_retries raising requests, the
\* second enriched at its second request
C21_Witness ==
    /\ pc = "returned"
    /\ Len(loc.seeds) = 2
    /\ trace.requests[1] = <<"raise", "raise", "raise">>
    /\ trace.requests[2] = <<"raise", "info">>
    /\ EnrichedIds = {loc.seeds[2].video_id}

\* The season line 341 infers for a settled seed whose request returned
\* metadata: the seed's, or the one its title names
SeasonOfSettled(i) ==
    LET seed == loc.seeds[i]
        reply == trace.requests[i][Len(trace.requests[i])]
        title == IF reply = "info" THEN Info(seed.video_id).title ELSE seed.title
    IN IF seed.season # None THEN seed.season ELSE parse_first_season(title)

\* C22: every enriched payload, hence every video handed on to
\* deduplication and upsert_video, has a season of the requested seasons; a
\* candidate whose season (the seed's, else the one parsed from its title)
\* is absent or not requested is not in the enriched list.
C22_OnlyRequestedSeasonsEnriched ==
    /\ \A k \in DOMAIN loc.enriched :
        /\ loc.enriched[k].season # None
        /\ loc.enriched[k].season \in SeqToSet(loc.target_seasons)
    /\ \A i \in Settled :
        trace.requests[i][Len(trace.requests[i])] \in {"info", "untitled"} =>
            (loc.seeds[i].video_id \in EnrichedIds
             <=> SeasonOfSettled(i) \in SeqToSet(loc.target_seasons))

\* A seed without season whose title names season 12 is dropped when only
\* season 11 is requested, while a seed of season 11 is kept
C22_Witness ==
    /\ pc = "returned"
    /\ loc.target_seasons = <<11>>
    /\ Len(loc.seeds) = 2
    /\ loc.seeds[1].season = None /\ loc.seeds[1].title = "12gi T2"
    /\ trace.requests[1] = <<"untitled">>
    /\ loc.seeds[2].season = 11
    /\ trace.requests[2] = <<"info">>
    /\ EnrichedIds = {"vc"}

---------------------------------------------------------------------------
\* _merge_seed_lists on its own, on every pair of short seed lists the two
\* discovery steps can return (each is the values of a dict keyed by id)

OfficialSeedPool ==
    {seed_from_entry(Entry(v), source, 11, TRUE)
     : v \in VideoIds, source \in {"official_playlist", "official_channel"}}

FallbackSeedPool == {seed_from_entry(Entry(v), "general_search", None, FALSE) : v \in VideoIds}

SeedLists(pool) ==
    {<<>>} \cup {<<a>> : a \in pool}
           \cup {l \in {<<a, b>> : a \in pool, b \in pool} : l[1].video_id # l[2].video_id}

InitMerge ==
    /\ videos = EmptyStore
    /\ jobs = <<>>
    /\ job_logs = <<>>
    /\ pc = "merge_call"
    /\ args = NoArgs
    /\ world = UnknownWorld
    /\ \E official \in SeedLists(OfficialSeedPool), fallback \in SeedLists(FallbackSeedPool) :
        loc = [InitialLocals EXCEPT !.official_seeds = official, !.fallback_seeds = fallback]
    /\ out = [state |-> "none", exc |-> NoExc, summary |-> NoSummary]
    /\ trace = [videos0 |-> EmptyStore, jobs0 |-> 0, visits |-> <<>>, runs |-> 0,
                after_previous |-> EmptyStore]
    /\ lastCall = [op |-> "none"]

\* line 86: merged_seeds = self._merge_seed_lists(official_seeds, fallback_seeds)
MergeCall ==
    /\ pc = "merge_call"
    /\ loc' = [loc EXCEPT !.merged_seeds = merge_seed_lists(loc.official_seeds,
                                                            loc.fallback_seeds)]
    /\ pc' = "merge_return"
    /\ UNCHANGED <<videos, jobs, job_logs, args, world, out, trace, lastCall>>

SpecMerge == InitMerge /\ [][MergeCall]_vars

IdsOf(seeds) == {seeds[i].video_id : i \in DOMAIN seeds}

\* C23: the merged list has exactly one seed for each video id of the two
\* lists; for an id of the official list it is the official seed, field by
\* field, and for any other id the fallback seed.
C23_MergeKeepsOfficialSeedWhole ==
    pc = "merge_return" =>
        /\ IdsOf(loc.merged_seeds) = IdsOf(loc.official_seeds) \cup IdsOf(loc.fallback_seeds)
        /\ \A i, j \in DOMAIN loc.merged_seeds :
            loc.merged_seeds[i].video_id = loc.merged_seeds[j].video_id => i = j
        /\ \A i \in DOMAIN loc.merged_seeds :
            LET seed == loc.merged_seeds[i]
            IN IF seed.video_id \in IdsOf(loc.official_seeds)
               THEN \E k \in DOMAIN loc.official_seeds : seed = loc.official_seeds[k]
               ELSE \E k \in DOMAIN loc.fallback_seeds : seed = loc.fallback_seeds[k]

\* vc is in both lists, with season 12 from the search and season 11 from
\* the official listing, and the merged list holds the official seed
C23_Witness ==
    /\ pc = "merge_return"
    /\ Len(loc.official_seeds) = 2 /\ Len(loc.fallback_seeds) = 2
    /\ Len(loc.merged_seeds) = 3
    /\ \E i \in DOMAIN loc.merged_seeds, k \in DOMAIN loc.fallback_seeds :
        /\ loc.merged_seeds[i].video_id = "vc"
        /\ loc.fallback_seeds[k].video_id = "vc"
        /\ loc.fallback_seeds[k].season = 12
        /\ loc.merged_seeds[i].season = 11
        /\ loc.merged_seeds[i].is_official

---------------------------------------------------------------------------
\* collect() from line 91 on, for any enriched list: the run has created its
\* job and logged its discovery, _enrich_candidates has just returned.  The
\* candidates differ in season, episode, upload date and id.

OrderCandidate(v, title, upload_date) ==
    [Candidate(v, parse_episode_number(title), title, TRUE, 100) EXCEPT
        !.season = parse_first_season(title),
        !.upload_date = upload_date,
        !.dedupe_key = make_dedupe_key(parse_first_season(title),
                                       parse_episode_number(title), upload_date, title)]

OrderPool ==
    [v \in VideoIds |->
        {OrderCandidate(v, title, day) :
            title \in CASE v = "va" -> {"11gi 3hoe T0", "11gi 5hoe T1"}
                        [] v = "vb" -> {"11gi 5hoe cut", "11gi"}
                        [] v = "vc" -> {"12gi T2", "11gi 5hoe T1"},
            day \in CASE v = "va" -> {None, 20240102}
                      [] v = "vb" -> {20240101, 20240102}
                      [] v = "vc" -> {None, 20240101}}]

InitOrder ==
    /\ videos = EmptyStore
    /\ jobs = create_job(<<>>, <<11, 12>>, TRUE, FALSE)
    /\ pc = "log_dedupe"
    /\ args = [seasons |-> <<11, 12>>, include_fallback_search |-> TRUE,
               dry_run |-> FALSE, force_transcript_refresh |-> FALSE]
    /\ world = UnknownWorld
    /\ \E enriched \in ListsOver(VideoIds, OrderPool) :
        /\ loc = Reconciled([InitialLocals EXCEPT !.selected_seasons = <<11, 12>>,
                                                  !.job_id = 1,
                                                  !.total_candidates = Len(enriched),
                                                  !.enriched = enriched])
        /\ job_logs = LogAll(<<>>, 1,
                <<Msg("start", 0, 0, <<11, 12>>, ""),
                  Msg("no_playlist_match", 0, 0, <<>>, ""),
                  Msg("official_done", 0, Len(enriched), <<>>, ""),
                  Msg("candidates", Len(enriched), 0, <<>>, "")>>)
    /\ out = [state |-> "none", exc |-> NoExc, summary |-> NoSummary]
    /\ trace = [videos0 |-> EmptyStore, jobs0 |-> 0, visits |-> <<>>, runs |-> 1,
                after_previous |-> EmptyStore]
    /\ lastCall = [op |-> "none"]

NextOrder ==
    \/ Log \/ Upsert \/ HasTranscript \/ Fetch \/ UpdateTranscript
    \/ FinishCompleted \/ Return

SpecOrder == InitOrder /\ [][NextOrder]_vars

\* a is placed before b: by season, then by episode with an unknown episode
\* after every known one, then by upload date with an unknown date last,
\* then by video id
PlacedBefore(a, b) ==
    LET episodeBefore == a.episode # None /\ (b.episode = None \/ a.episode < b.episode)
        dateBefore == a.upload_date # None
                      /\ (b.upload_date = None \/ a.upload_date < b.upload_date)
    IN \/ a.season < b.season
       \/ a.season = b.season /\ episodeBefore
       \/ a.season = b.season /\ a.episode = b.episode /\ dateBefore
       \/ /\ a.season = b.season /\ a.episode = b.episode
          /\ a.upload_date = b.upload_date
          /\ IdRank(a.video_id) < IdRank(b.video_id)

\* C24: the ordered list holds each deduplicated survivor once, every
\* earlier element placed before every later one (so the order does not
\* depend on the arrival order); the rows are upserted in that order, one
\* for each step of the loop, and the transcript loop visits them in that
\* order, each once.
C24_PersistedAndVisitedInSortOrder ==
    /\ {loc.ordered[i] : i \in DOMAIN loc.ordered} = {loc.deduped[i] : i \in DOMAIN loc.deduped}
    /\ Len(loc.ordered) = Len(loc.deduped)
    /\ \A i, j \in DOMAIN loc.ordered : i < j => PlacedBefore(loc.ordered[i], loc.ordered[j])
    /\ pc = "upsert" => DOMAIN videos = {loc.ordered[i].video_id : i \in 1..(loc.idx - 1)}
    /\ pc \notin {"log_dedupe", "upsert"} => DOMAIN videos = IdsOf(loc.ordered)
    /\ Len(trace.visits) <= Len(loc.ordered)
    /\ \A k \in DOMAIN trace.visits : trace.visits[k].video_id = loc.ordered[k].video_id
    /\ pc \in {"finish", "log_done", "summary", "done"} => Len(trace.visits) = Len(loc.ordered)

\* Three survivors that arrived in the opposite order: the same episode and
\* date twice (placed by id), and an unknown date placed last
C24_Witness ==
    /\ pc = "done"
    /\ Len(loc.enriched) = 3 /\ Len(loc.ordered) = 3
    /\ loc.enriched[1].video_id = "vc" /\ loc.enriched[3].video_id = "va"
    /\ loc.ordered[1].video_id = "va" /\ loc.ordered[2].video_id = "vb"
    /\ loc.ordered[1].episode = 5 /\ loc.ordered[2].episode = 5
    /\ loc.ordered[1].upload_date = loc.ordered[2].upload_date
    /\ loc.ordered[3].season = 11 /\ loc.ordered[3].upload_date = None
    /\ Len(trace.visits) = 3

---------------------------------------------------------------------------
\* _fetch_transcript: how a call ends

TerminalStatuses == {"success", "no_transcript", "transcripts_disabled", "error"}

\* C25: a call of _fetch_transcript ends by returning a payload, never by
\* raising; the payload's status is success, no_transcript,
\* transcripts_disabled or error: no_transcript after NoTranscriptFound or
\* an empty listing, transcripts_disabled after TranscriptsDisabled, error
\* with at most 180 characters of message after any other exception; text,
\* segments and hash are empty unless the status is success.
C25_FetchEndsInOneTerminalStatus ==
    /\ pc \in {"api_list", "chosen_fetch", "returned"}
    /\ pc # "returned" => out = NoTranscript
    /\ pc = "returned" =>
        /\ out.transcript_status \in TerminalStatuses
        /\ loc.exc = "NoTranscriptFound" => out.transcript_status = "no_transcript"
        /\ loc.exc = "TranscriptsDisabled" => out.transcript_status = "transcripts_disabled"
        /\ loc.exc = "Exception" =>
            /\ out.transcript_status = "error"
            /\ MessageLength(out.error_message) <= 180
        /\ (loc.exc = "" /\ world.variants = <<>>) => out.transcript_status = "no_transcript"
        /\ (loc.exc = "" /\ world.variants # <<>>) => out.transcript_status = "success"
        /\ out.transcript_status # "success" =>
            /\ out.transcript_text = ""
            /\ out.transcript_segments = <<>>
            /\ out.transcript_hash = ""
        /\ out.transcript_status # "error" => out.error_message = ""

\* chosen.fetch() raised an exception whose text has 200 characters
C25_Witness ==
    /\ pc = "returned"
    /\ loc.exc = "Exception"
    /\ trace.fetch_calls = 1
    /\ out.transcript_status = "error"
    /\ MessageLength(out.error_message) = 180

---------------------------------------------------------------------------
\* Two collect() jobs at once on one database (the app and
\* background_collect.py each call collect(); every store call opens its own
\* connection and is one transaction).  Both runs found the same two videos;
\* force_transcript_refresh and dry_run are off.  The steps are the calls
\* on the jobs and videos tables; the log calls, which only append to
\* job_logs, are left out.

ConcurrentJobs == {1, 2}

\* The ordered list of both runs
SharedOrdered ==
    sort_candidates(<<StoredPayload("va", "official_playlist", TRUE),
                      StoredPayload("vc", "general_search", FALSE)>>)

JobLocals ==
    [job_id |-> 0, idx |-> 1, transcript |-> NoTranscript,
     transcript_success |-> 0, transcript_fail |-> 0, fail_reasons |-> [r \in {} |-> 0]]

InitConcurrent ==
    /\ videos = EmptyStore
    /\ jobs = <<>>
    /\ job_logs = <<>>
    /\ pc = [j \in ConcurrentJobs |-> "create_job"]
    /\ args = [seasons |-> <<11, 12>>, include_fallback_search |-> TRUE,
               dry_run |-> FALSE, force_transcript_refresh |-> FALSE]
    /\ world = UnknownWorld
    /\ loc = [j \in ConcurrentJobs |-> JobLocals]
    /\ out = [state |-> "none"]
    /\ trace = [runs |-> 2]
    /\ lastCall = [op |-> "none"]

\* line 55: create_job
JobCreates(j) ==
    /\ pc[j] = "create_job"
    /\ jobs' = create_job(jobs, args.seasons, args.include_fallback_search, args.dry_run)
    /\ loc' = [loc EXCEPT ![j].job_id = Len(jobs) + 1]
    /\ pc' = [pc EXCEPT ![j] = "upsert"]
    /\ UNCHANGED <<videos, job_logs, args, world, out, trace, lastCall>>

\* lines 96-97: upsert_video of one payload
JobUpserts(j) ==
    /\ pc[j] = "upsert"
    /\ videos' = upsert_video(videos, SharedOrdered[loc[j].idx])
    /\ IF loc[j].idx < Len(SharedOrdered)
       THEN loc' = [loc EXCEPT ![j].idx = @ + 1] /\ pc' = pc
       ELSE loc' = [loc EXCEPT ![j].idx = 1] /\ pc' = [pc EXCEPT ![j] = "has_transcript"]
    /\ UNCHANGED <<jobs, job_logs, args, world, out, trace, lastCall>>

\* lines 106-111: video_has_transcript; the item is skipped, or
\* _fetch_transcript is called
JobReads(j) ==
    /\ pc[j] = "has_transcript"
    /\ LET video_id == SharedOrdered[loc[j].idx].video_id
       IN IF video_has_transcript(videos, video_id)
          THEN /\ loc' = [loc EXCEPT ![j].idx = @ + 1]
               /\ pc' = [pc EXCEPT ![j] = IF loc[j].idx < Len(SharedOrdered)
                                           THEN "has_transcript" ELSE "finish"]
          ELSE /\ \E t \in TranscriptOutcomes(video_id) :
                    loc' = [loc EXCEPT ![j].transcript = t]
               /\ pc' = [pc EXCEPT ![j] = "update_transcript"]
    /\ UNCHANGED <<videos, jobs, job_logs, args, world, out, trace, lastCall>>

\* lines 112-119: update_transcript and the counters
JobWrites(j) ==
    /\ pc[j] = "update_transcript"
    /\ videos' = update_transcript(videos, SharedOrdered[loc[j].idx].video_id,
                                   loc[j].transcript)
    /\ loc' = [loc EXCEPT ![j] = [Counted(loc[j]) EXCEPT !.idx = @ + 1]]
    /\ pc' = [pc EXCEPT ![j] = IF loc[j].idx < Len(SharedOrdered)
                                THEN "has_transcript" ELSE "finish"]
    /\ UNCHANGED <<jobs, job_logs, args, world, out, trace, lastCall>>

\* line 135: finish_job(status="completed")
JobFinishes(j) ==
    /\ pc[j] = "finish"
    /\ jobs' = finish_job(jobs, loc[j].job_id, "completed", Len(SharedOrdered),
                          Len(SharedOrdered), loc[j].transcript_success,
                          loc[j].transcript_fail)
    /\ pc' = [pc EXCEPT ![j] = "done"]
    /\ UNCHANGED <<videos, job_logs, args, world, loc, out, trace, lastCall>>

NextConcurrent ==
    \E j \in ConcurrentJobs :
        JobCreates(j) \/ JobUpserts(j) \/ JobReads(j) \/ JobWrites(j) \/ JobFinishes(j)

SpecConcurrent == InitConcurrent /\ [][NextConcurrent]_vars

\* One job run alone from a store: the upserts, then the transcript loop
\* with the outcome pick[v] for each video it fetches; the store and the
\* job's counters at the end
RECURSIVE UpsertsAlone(_, _)
UpsertsAlone(table, ordered) ==
    IF ordered = <<>> THEN table
    ELSE UpsertsAlone(upsert_video(table, Head(ordered)), Tail(ordered))

RECURSIVE LoopAlone(_, _, _)
LoopAlone(run, ordered, pick) ==
    IF ordered = <<>> THEN run
    ELSE LET video_id == Head(ordered).video_id
             t == pick[video_id]
         IN LoopAlone(
                IF video_has_transcript(run.videos, video_id) THEN run
                ELSE [videos |-> update_transcript(run.videos, video_id, t),
                      transcript_success |-> run.transcript_success
                            + (IF t.transcript_status = "success" THEN 1 ELSE 0),
                      transcript_fail |-> run.transcript_fail
                            + (IF t.transcript_status = "success" THEN 0 ELSE 1)],
                Tail(ordered), pick)

RunAlone(table, pick) ==
    LoopAlone([videos |-> UpsertsAlone(table, SharedOrdered),
               transcript_success |-> 0, transcript_fail |-> 0],
              SharedOrdered, pick)

Picks ==
    {p \in [IdsOf(SharedOrdered) -> UNION {TranscriptOutcomes(v) : v \in IdsOf(SharedOrdered)}] :
        \A v \in IdsOf(SharedOrdered) : p[v] \in TranscriptOutcomes(v)}

\* What two jobs leave when one runs after the other: the videos table and
\* the counters of the earlier and of the later job
SerialOutcomes ==
    {LET earlier == RunAlone(EmptyStore, p1)
         later == RunAlone(earlier.videos, p2)
     IN [videos |-> later.videos,
         earlier |-> <<earlier.transcript_success, earlier.transcript_fail>>,
         later |-> <<later.transcript_success, later.transcript_fail>>]
     : p1 \in Picks, p2 \in Picks}

CountersOf(j) == <<jobs[loc[j].job_id].transcript_success, jobs[loc[j].job_id].transcript_fail>>

\* C26: when two concurrent jobs have finished, the videos table and the
\* two jobs' counters are what the jobs leave in one of the two serial
\* orders, for some outcomes of their transcript requests.
C26_InterleavingIsSerializable ==
    (\A j \in ConcurrentJobs : pc[j] = "done") =>
        \E j \in ConcurrentJobs, k \in ConcurrentJobs :
            /\ j # k
            /\ [videos |-> videos, earlier |-> CountersOf(j), later |-> CountersOf(k)]
                    \in SerialOutcomes

\* C28: with force_transcript_refresh off, a stored transcript in status
\* 'success' keeps its status, text and hash in every step, whichever of
\* two concurrent jobs takes it.
C28_SuccessNeverReplaced ==
    [][\A v \in DOMAIN videos :
        videos[v].transcript_status = "success" =>
            /\ videos'[v].transcript_status = "success"
            /\ videos'[v].transcript_text = videos[v].transcript_text
            /\ videos'[v].transcript_hash = videos[v].transcript_hash]_vars

---------------------------------------------------------------------------
\* A run whose process is terminated, then a later run on the same database.
\* Nothing of collect() runs at termination: no handler, no finish_job.

InitTerminated ==
    /\ Init
    /\ videos = EmptyStore

\* The process is killed between create_job and finish_job
Terminate ==
    /\ pc \notin {"idle", "create_job", "done", "terminated"}
    /\ lastCall.op = "none"
    /\ jobs[loc.job_id].status = "running"
    /\ pc' = "terminated"
    /\ lastCall' = [op |-> "terminated", job_id |-> loc.job_id]
    /\ UNCHANGED <<videos, jobs, job_logs, args, world, loc, out, trace>>

\* collect() is called again by a new process, with the same arguments
RunAfterTermination ==
    /\ pc = "terminated"
    /\ loc' = [InitialLocals EXCEPT !.selected_seasons = ensure_season_list(args.seasons)]
    /\ out' = [state |-> "none", exc |-> NoExc, summary |-> NoSummary]
    /\ trace' = [videos0 |-> videos, jobs0 |-> Len(jobs), visits |-> <<>>,
                 runs |-> trace.runs + 1, after_previous |-> videos]
    /\ pc' = "create_job"
    /\ UNCHANGED <<videos, jobs, job_logs, args, world, lastCall>>

NextTerminated == Call \/ Step \/ Fault \/ Terminate \/ RunAfterTermination

SpecTerminated == InitTerminated /\ [][NextTerminated]_vars

\* C27: the row of a job whose process was terminated before finish_job
\* keeps status 'running' and no finished_at in every later state, whatever
\* a later run does, faults and its own finish_job included.
C27_TerminatedJobStaysRunning ==
    lastCall.op = "terminated" =>
        /\ jobs[lastCall.job_id].status = "running"
        /\ jobs[lastCall.job_id].finished_at = NoText

\* A later run has finished its own job row while the terminated run's row
\* is still there
C27_Witness ==
    /\ lastCall.op = "terminated"
    /\ pc = "done"
    /\ Len(jobs) = 2
    /\ loc.job_id = 2 /\ lastCall.job_id = 1
    /\ jobs[2].status = "completed"
    /\ jobs[1].status = "running"

---------------------------------------------------------------------------
\* The counters of a collect() run

\* The update_transcript calls of the run that have returned: one for each
\* fetched item, but for the item whose call is still to be made or raised
UpdatesCompleted ==
    Cardinality({k \in DOMAIN trace.visits : trace.visits[k].fetched})
    - (IF pc = "update_transcript" \/ loc.tb = "update_transcript" THEN 1 ELSE 0)

RECURSIVE TallySum(_, _)
TallySum(tally, reasons) ==
    IF reasons = {} THEN 0
    ELSE LET r == CHOOSE x \in reasons : TRUE
         IN tally[r] + TallySum(tally, reasons \ {r})

\* C29: at every point of a run, transcript_success + transcript_fail is
\* the number of update_transcript calls that have returned, the failure
\* tally sums to transcript_fail and has no 'success' key, successes plus
\* failures are at most kept_candidates, which is at most
\* total_candidates, and a job row that has been finished holds these
\* four counters.
C29_CountersConsistent ==
    pc # "idle" =>
        /\ loc.transcript_success + loc.transcript_fail = UpdatesCompleted
        /\ TallySum(loc.fail_reasons, DOMAIN loc.fail_reasons) = loc.transcript_fail
        /\ "success" \notin DOMAIN loc.fail_reasons
        /\ \A r \in DOMAIN loc.fail_reasons : loc.fail_reasons[r] >= 1
        /\ loc.transcript_success + loc.transcript_fail <= loc.kept_candidates
        /\ loc.kept_candidates <= loc.total_candidates
        /\ (loc.job_id \in DOMAIN jobs /\ jobs[loc.job_id].status # "running") =>
            /\ jobs[loc.job_id].total_candidates = loc.total_candidates
            /\ jobs[loc.job_id].kept_candidates = loc.kept_candidates
            /\ jobs[loc.job_id].transcript_success = loc.transcript_success
            /\ jobs[loc.job_id].transcript_fail = loc.transcript_fail

\* A run that stored one transcript and one failure, lost a candidate to
\* deduplication and finished its job
C29_Witness ==
    /\ pc = "done"
    /\ loc.transcript_success = 1 /\ loc.transcript_fail = 1
    /\ loc.kept_candidates = 2 /\ loc.total_candidates = 3
    /\ jobs[loc.job_id].status = "completed"
    /\ jobs[loc.job_id].transcript_fail = 1

---------------------------------------------------------------------------
\* Deduplication and the arrival order of the candidates

\* The lists that hold the same candidates as list, in every order
Reorderings(list) ==
    {[i \in DOMAIN list |-> list[p[i]]] :
        p \in {q \in [DOMAIN list -> DOMAIN list] :
                    \A i, j \in DOMAIN list : q[i] = q[j] => i = j}}

\* C30: the video ids kept by deduplication are the same for every order in
\* which the same enriched candidates arrive, ties on (is_official,
\* source_priority, view_count, comment_count, upload_date) included.
C30_KeptIdsIndependentOfOrder ==
    pc = "dedupe_return" =>
        \A other \in Reorderings(loc.enriched) :
            IdsOf(dedupe_candidates(other)) = IdsOf(loc.deduped)

====
